---- MODULE Spec2Model ----
(***************************************************************************)
(* A model of serde-lite: the Intermediate value, and the Serialize,       *)
(* Deserialize and Update protocols of the core crate and of the code the  *)
(* derive macros generate.                                                 *)
(*                                                                         *)
(* Rust values are modelled as follows.                                    *)
(*   bool            TRUE / FALSE                                          *)
(*   integers        a tuple of limbs (see IntOf below)                    *)
(*   f32 / f64       [m, e] for m * 2^e (m odd or zero), or [inf, neg]     *)
(*   char, String    a string (a char is a string of length one)           *)
(*   Option<T>       None / Some(x)                                        *)
(*   Vec, [T; n], tuples, tuple structs     a sequence                     *)
(*   HashMap<String, V>, structs            a function from keys / fields  *)
(*   enum values     [k |-> the variant's identifier, v |-> its fields]     *)
(* Result<T, Error> is Ok(x) / Err(e); a panic is the outcome Panic.       *)
(***************************************************************************)
EXTENDS Integers, Sequences, FiniteSets, TLC

VARIABLES ty, recv, prev, input, res, op, guard, pc, locals

vars == <<ty, recv, prev, input, res, op, guard, pc, locals>>

(* The impl of a trait method that the type T selects (static dispatch).   *)
RECURSIVE Impl(_, _, _, _)
RECURSIVE Default(_)

(* T::deserialize(val) *)
Deserialize(T, val) == Impl("deserialize", T, val, val)

(* self.update(val): the Result and the receiver after *)
Update(T, self, val) == Impl("update", T, self, val)

(* self.serialize() *)
Serialize(T, self) == Impl("serialize", T, self, self)

(***************************************************************************)
(* Option and Result.                                                      *)
(***************************************************************************)
None == [k |-> "None"]

Some(x) == [k |-> "Some", v |-> x]

Ok(x) == [k |-> "Ok", v |-> x]

Err(e) == [k |-> "Err", v |-> e]

Panic == [k |-> "Panic"]

Unit == "()"

IsOk(r) == r.k = "Ok"

IsErr(r) == r.k = "Err"

(* The outcome of update(&mut self, ..): the Result and the receiver after. *)
Upd(r, self) == [res |-> r, self |-> self]

(***************************************************************************)
(* Integers.  TLC's integers are 32 bits wide, the program's up to         *)
(* 128: an integer is a tuple of five limbs in base 2^30, most             *)
(* significant first, the first limb carrying the sign (floor division),   *)
(* so that the order of the integers is the lexicographic order.           *)
(***************************************************************************)
Base == 2^30

Top == Base - 1

IntOf(n) == IF n >= 0 THEN <<0, 0, 0, 0, n>> ELSE <<-1, Top, Top, Top, Base + n>>

IntLess(x, y) ==
    \E i \in DOMAIN x : x[i] < y[i] /\ \A j \in 1..(i - 1) : x[j] = y[j]

IntLE(x, y) == x = y \/ IntLess(x, y)

IsSmall(x) == x = IntOf(0) \/ (IntLess(IntOf(-Base), x) /\ IntLess(x, <<0, 0, 0, 1, 0>>))

ToSmall(x) == IF x[1] = 0 THEN x[Len(x)] ELSE x[Len(x)] - Base

SignedTypes == {"i8", "i16", "i32", "i64", "i128"}

UnsignedTypes == {"u8", "u16", "u32", "u64", "u128"}

(* T::MIN and T::MAX of an integer type. *)
MinOf(t) ==
    CASE t = "i8" -> IntOf(-(2^7))
      [] t = "i16" -> IntOf(-(2^15))
      [] t = "i32" -> <<-1, Top, Top, Base - 2, 0>>
      [] t = "i64" -> <<-1, Top, Base - 8, 0, 0>>
      [] t = "i128" -> <<-(2^7), 0, 0, 0, 0>>
      [] t \in UnsignedTypes -> IntOf(0)

MaxOf(t) ==
    CASE t = "i8" -> IntOf(2^7 - 1)
      [] t = "i16" -> IntOf(2^15 - 1)
      [] t = "i32" -> <<0, 0, 0, 1, Top>>
      [] t = "i64" -> <<0, 0, 7, Top, Top>>
      [] t = "i128" -> <<2^7 - 1, Top, Top, Top, Top>>
      [] t = "u8" -> IntOf(2^8 - 1)
      [] t = "u16" -> IntOf(2^16 - 1)
      [] t = "u32" -> <<0, 0, 0, 3, Top>>
      [] t = "u64" -> <<0, 0, 15, Top, Top>>
      [] t = "u128" -> <<2^8 - 1, Top, Top, Top, Top>>

(* The integer after x, and the one before it. *)
IntSucc(x) ==
    LET i == CHOOSE a \in DOMAIN x :
                 (a = 1 \/ x[a] # Top) /\ \A b \in (a + 1)..Len(x) : x[b] = Top
    IN  [b \in DOMAIN x |-> IF b < i THEN x[b] ELSE IF b = i THEN x[b] + 1 ELSE 0]

IntPred(x) ==
    LET i == CHOOSE a \in DOMAIN x :
                 (a = 1 \/ x[a] # 0) /\ \A b \in (a + 1)..Len(x) : x[b] = 0
    IN  [b \in DOMAIN x |-> IF b < i THEN x[b] ELSE IF b = i THEN x[b] - 1 ELSE Top]

InRange(v, t) == IntLE(MinOf(t), v) /\ IntLE(v, MaxOf(t))

(* std: <$x as TryFrom<i64 / u64>>::try_from, the checked conversion. *)
try_into(v, t) == IF InRange(v, t) THEN Ok(v) ELSE Err("TryFromIntError")

(***************************************************************************)
(* Floats: m * 2^e with m odd, or zero; infinities arise from `as f32`.    *)
(***************************************************************************)
RECURSIVE NormF(_, _)
NormF(m, e) ==
    IF m = 0 THEN [m |-> 0, e |-> 0]
    ELSE IF m % 2 = 0 THEN NormF(m \div 2, e + 1)
    ELSE [m |-> m, e |-> e]

Inf(neg) == [inf |-> TRUE, neg |-> neg]

(* The number of bits of |m|. *)
RECURSIVE BitLen(_)
BitLen(m) == IF m = 0 THEN 0 ELSE 1 + BitLen((IF m < 0 THEN -m ELSE m) \div 2)

(* `v as f64` of an integer: exact below 2^53; the model converts integers *)
(* of one limb only.                                                       *)
int_as_f64(v) == CASE IsSmall(v) -> NormF(ToSmall(v), 0)

(* `v as f32` of an f64: a mantissa below 2^24 is kept; a magnitude of     *)
(* 2^128 or more becomes an infinity.  The model draws no float below the  *)
(* f32 subnormals.                                                         *)
f64_as_f32(f) ==
    CASE "inf" \in DOMAIN f -> f
      [] f.m = 0 -> f
      [] f.e + BitLen(f.m) > 2^7 -> Inf(f.m < 0)
      [] f.e >= -149 -> f

(***************************************************************************)
(* Number and Intermediate.  A Map is the sequence of its entries in the   *)
(* order its iteration yields them; its keys are unique.                   *)
(***************************************************************************)
Float(f) == [k |-> "Float", v |-> f]

SignedInt(v) == [k |-> "SignedInt", v |-> v]

UnsignedInt(v) == [k |-> "UnsignedInt", v |-> v]

INone == [k |-> "None"]

IBool(b) == [k |-> "Bool", v |-> b]

INumber(n) == [k |-> "Number", v |-> n]

IString(s) == [k |-> "String", v |-> s]

IArray(a) == [k |-> "Array", v |-> a]

IMap(m) == [k |-> "Map", v |-> m]

Entry(key, val) == [key |-> key, val |-> val]

Keys(m) == {m[i].key : i \in DOMAIN m}

(* Map::get *)
MapGet(m, key) ==
    IF key \in Keys(m)
    THEN Some(m[CHOOSE i \in DOMAIN m : m[i].key = key].val)
    ELSE None

(***************************************************************************)
(* Error.                                                                  *)
(***************************************************************************)
OutOfBounds == [k |-> "OutOfBounds"]

UnsupportedConversion == [k |-> "UnsupportedConversion"]

MissingField == [k |-> "MissingField"]

UnknownEnumVariant == [k |-> "UnknownEnumVariant"]

MissingEnumVariantContent == [k |-> "MissingEnumVariantContent"]

invalid_value(expected) == [k |-> "InvalidValue", v |-> expected]

NamedFieldErrors(errors) == [k |-> "NamedFieldErrors", v |-> errors]

UnnamedFieldErrors(errors) == [k |-> "UnnamedFieldErrors", v |-> errors]

custom(msg) == [k |-> "Custom", v |-> msg]

(***************************************************************************)
(* The accessors of Intermediate.                                          *)
(***************************************************************************)
is_none(val) == val.k = "None"

as_bool(val) == IF val.k = "Bool" THEN Some(val.v) ELSE None

as_number(val) == IF val.k = "Number" THEN Some(val.v) ELSE None

as_str(val) == IF val.k = "String" THEN Some(val.v) ELSE None

as_char(val) ==
    IF as_str(val) # None
    THEN IF Len(as_str(val).v) = 1 THEN Some(as_str(val).v) ELSE None
    ELSE None

as_array(val) == IF val.k = "Array" THEN Some(val.v) ELSE None

as_map(val) == IF val.k = "Map" THEN Some(val.v) ELSE None

(***************************************************************************)
(* Number to integer: TryFrom<Number>.                                     *)
(***************************************************************************)
map_err_OutOfBounds(r) == IF IsOk(r) THEN r ELSE Err(OutOfBounds)

(* try_int_from_number!(i8, i16, i32, isize, u8, u16, u32, usize) *)
try_int_from_number(t, n) ==
    CASE n.k = "Float" -> Err(UnsupportedConversion)
      [] n.k = "SignedInt" -> map_err_OutOfBounds(try_into(n.v, t))
      [] n.k = "UnsignedInt" -> map_err_OutOfBounds(try_into(n.v, t))

try_i64_from_number(n) ==
    CASE n.k = "Float" -> Err(UnsupportedConversion)
      [] n.k = "SignedInt" -> Ok(n.v)
      [] n.k = "UnsignedInt" -> map_err_OutOfBounds(try_into(n.v, "i64"))

try_u64_from_number(n) ==
    CASE n.k = "Float" -> Err(UnsupportedConversion)
      [] n.k = "SignedInt" -> map_err_OutOfBounds(try_into(n.v, "u64"))
      [] n.k = "UnsignedInt" -> Ok(n.v)

(* n.try_into() for the integer type t *)
number_try_into(t, n) ==
    CASE t = "i64" -> try_i64_from_number(n)
      [] t = "u64" -> try_u64_from_number(n)
      [] OTHER -> try_int_from_number(t, n)

(* From<Number> for f64 *)
f64_from_number(n) ==
    CASE n.k = "Float" -> n.v
      [] n.k = "SignedInt" -> int_as_f64(n.v)
      [] n.k = "UnsignedInt" -> int_as_f64(n.v)

(* Intermediate::as_i64, as_u64, as_f64: the numeric views update.rs calls *)
as_i64(val) == IF val.k = "Number" THEN Some(try_i64_from_number(val.v)) ELSE None

as_u64(val) == IF val.k = "Number" THEN Some(try_u64_from_number(val.v)) ELSE None

as_f64(val) == IF val.k = "Number" THEN Some(f64_from_number(val.v)) ELSE None

(***************************************************************************)
(* Types.                                                                  *)
(***************************************************************************)
TBool == [k |-> "bool"]

TInt(t) == [k |-> "int", v |-> t]

TF32 == [k |-> "f32"]

TF64 == [k |-> "f64"]

TChar == [k |-> "char"]

TString == [k |-> "String"]

(***************************************************************************)
(* Deserialize for the scalars.                                            *)
(***************************************************************************)
deserialize_bool(val) ==
    IF as_bool(val) # None THEN Ok(as_bool(val).v) ELSE Err(invalid_value("bool"))

deserialize_for_signed_int(t, val) ==
    IF as_number(val) = None THEN Err(invalid_value("integer"))
    ELSE number_try_into(t, as_number(val).v)

deserialize_for_unsigned_int(t, val) ==
    IF as_number(val) = None THEN Err(invalid_value("unsigned integer"))
    ELSE number_try_into(t, as_number(val).v)

(* i128: i64::deserialize(val).map(|v| v.into()) *)
deserialize_i128(val) == deserialize_for_signed_int("i64", val)

deserialize_u128(val) == deserialize_for_unsigned_int("u64", val)

deserialize_int(t, val) ==
    CASE t = "i128" -> deserialize_i128(val)
      [] t = "u128" -> deserialize_u128(val)
      [] t \in SignedTypes -> deserialize_for_signed_int(t, val)
      [] t \in UnsignedTypes -> deserialize_for_unsigned_int(t, val)

deserialize_f64(val) ==
    IF as_number(val) = None THEN Err(invalid_value("number"))
    ELSE Ok(f64_from_number(as_number(val).v))

deserialize_f32(val) ==
    IF IsOk(deserialize_f64(val)) THEN Ok(f64_as_f32(deserialize_f64(val).v))
    ELSE deserialize_f64(val)

deserialize_char(val) ==
    IF as_char(val) # None THEN Ok(as_char(val).v) ELSE Err(invalid_value("character"))

deserialize_String(val) ==
    IF as_str(val) # None THEN Ok(as_str(val).v) ELSE Err(invalid_value("string"))

(***************************************************************************)
(* Update for the scalars.                                                 *)
(***************************************************************************)
update_bool(self, val) ==
    IF as_bool(val) = None THEN Upd(Err(invalid_value("bool")), self)
    ELSE Upd(Ok(Unit), as_bool(val).v)

(* A faulty update_for_signed_int: try_into().unwrap_or_default() in place *)
(* of map_err(..)?, so a value outside the type is stored as 0.            *)
update_for_signed_int_default(t, self, val) ==
    CASE as_i64(val) = None -> Upd(Err(invalid_value("integer")), self)
      [] as_i64(val) # None /\ IsErr(as_i64(val).v) -> Upd(as_i64(val).v, self)
      [] OTHER ->
          IF IsOk(try_into(as_i64(val).v.v, t))
          THEN Upd(Ok(Unit), try_into(as_i64(val).v.v, t).v)
          ELSE Upd(Ok(Unit), IntOf(0))

(* val.as_i64().ok_or_else(..)??.try_into().map_err(|_| OutOfBounds)? *)
update_for_signed_int(t, self, val) ==
    CASE as_i64(val) = None -> Upd(Err(invalid_value("integer")), self)
      [] as_i64(val) # None /\ IsErr(as_i64(val).v) -> Upd(as_i64(val).v, self)
      [] OTHER ->
          IF IsOk(try_into(as_i64(val).v.v, t))
          THEN Upd(Ok(Unit), try_into(as_i64(val).v.v, t).v)
          ELSE Upd(Err(OutOfBounds), self)

update_for_unsigned_int(t, self, val) ==
    CASE as_u64(val) = None -> Upd(Err(invalid_value("unsigned integer")), self)
      [] as_u64(val) # None /\ IsErr(as_u64(val).v) -> Upd(as_u64(val).v, self)
      [] OTHER ->
          IF IsOk(try_into(as_u64(val).v.v, t))
          THEN Upd(Ok(Unit), try_into(as_u64(val).v.v, t).v)
          ELSE Upd(Err(OutOfBounds), self)

(* i64 and i128: the value as_i64 yields is assigned (i128: val.into()) *)
update_i64(self, val) ==
    CASE as_i64(val) = None -> Upd(Err(invalid_value("integer")), self)
      [] as_i64(val) # None /\ IsErr(as_i64(val).v) -> Upd(as_i64(val).v, self)
      [] OTHER -> Upd(Ok(Unit), as_i64(val).v.v)

update_u64(self, val) ==
    CASE as_u64(val) = None -> Upd(Err(invalid_value("unsigned integer")), self)
      [] as_u64(val) # None /\ IsErr(as_u64(val).v) -> Upd(as_u64(val).v, self)
      [] OTHER -> Upd(Ok(Unit), as_u64(val).v.v)

update_int(t, self, val) ==
    CASE t \in {"i64", "i128"} -> update_i64(self, val)
      [] t \in {"u64", "u128"} -> update_u64(self, val)
      [] t \in SignedTypes -> update_for_signed_int(t, self, val)
      [] t \in UnsignedTypes -> update_for_unsigned_int(t, self, val)

update_f64(self, val) ==
    IF as_f64(val) = None THEN Upd(Err(invalid_value("number")), self)
    ELSE Upd(Ok(Unit), as_f64(val).v)

update_f32(self, val) ==
    IF as_f64(val) = None THEN Upd(Err(invalid_value("number")), self)
    ELSE Upd(Ok(Unit), f64_as_f32(as_f64(val).v))

update_char(self, val) ==
    IF as_char(val) = None THEN Upd(Err(invalid_value("character")), self)
    ELSE Upd(Ok(Unit), as_char(val).v)

update_String(self, val) ==
    IF as_str(val) = None THEN Upd(Err(invalid_value("string")), self)
    ELSE Upd(Ok(Unit), as_str(val).v)

(***************************************************************************)
(* Serialize for the scalars.                                              *)
(***************************************************************************)
serialize_bool(self) == Ok(IBool(self))

(* i8, i16, i32: SignedInt(i64::from(v)); i64: SignedInt(v);               *)
(* i128: i64::try_from(v), OutOfBounds when it fails                       *)
serialize_for_signed_int(self) ==
    IF IsOk(try_into(self, "i64")) THEN Ok(INumber(SignedInt(self)))
    ELSE Err(OutOfBounds)

serialize_for_unsigned_int(self) ==
    IF IsOk(try_into(self, "u64")) THEN Ok(INumber(UnsignedInt(self)))
    ELSE Err(OutOfBounds)

serialize_int(t, self) ==
    IF t \in SignedTypes THEN serialize_for_signed_int(self)
    ELSE serialize_for_unsigned_int(self)

(* f32: Float(v as f64), a widening that keeps the value *)
serialize_float(self) == Ok(INumber(Float(self)))

serialize_char(self) == Ok(IString(self))

serialize_String(self) == Ok(IString(self))

(***************************************************************************)
(* The container types.                                                    *)
(***************************************************************************)
TOption(T) == [k |-> "Option", v |-> T]

TVec(T) == [k |-> "Vec", v |-> T]

(* [T; n] *)
TArray(n, T) == [k |-> "Array", n |-> n, v |-> T]

(* (T0, T1, ..); () is the tuple of no types *)
TTuple(ts) == [k |-> "Tuple", v |-> ts]

(* HashMap<String, V> *)
TKeyedHashMap(K, V) == [k |-> "HashMap", key |-> K, v |-> V]

THashMap(V) == TKeyedHashMap("String", V)

(* HashMap::insert *)
Insert(map, key, val) ==
    IF DOMAIN map = {} THEN [x \in {key} |-> val]
    ELSE [x \in (DOMAIN map) \cup {key} |-> IF x = key THEN val ELSE map[x]]

EmptyMap == [x \in {} |-> None]

array_of_length(n) == "an array of length " \o ToString(n)

(***************************************************************************)
(* Deserialize for the containers.                                         *)
(***************************************************************************)
deserialize_Option(T, val) ==
    IF is_none(val) THEN Ok(None)
    ELSE LET r == Deserialize(T, val)
         IN  IF IsOk(r) THEN Ok(Some(r.v)) ELSE r

(* for elem in val { res.push(T::deserialize(elem)?) } *)
deserialize_Vec(T, val) ==
    LET RECURSIVE loop(_, _, _)
        loop(arr, i, acc) ==
            IF i > Len(arr) THEN Ok(acc)
            ELSE LET r == Deserialize(T, arr[i])
                 IN  IF IsOk(r) THEN loop(arr, i + 1, Append(acc, r.v)) ELSE r
    IN  IF as_array(val) # None THEN loop(as_array(val).v, 1, <<>>)
        ELSE Err(invalid_value("array"))

(* A faulty deserialize_array: an array of another length than n is       *)
(* refused.                                                                *)
deserialize_array_exact(n, T, val) ==
    LET RECURSIVE loop(_, _, _)
        loop(arr, i, acc) ==
            IF i > n THEN Ok(acc)
            ELSE LET r == Deserialize(T, arr[i])
                 IN  IF IsOk(r) THEN loop(arr, i + 1, Append(acc, r.v)) ELSE r
    IN  IF n = 0 THEN Ok(<<>>)
        ELSE IF as_array(val) # None
        THEN IF Len(as_array(val).v) # n THEN Err(invalid_value(array_of_length(n)))
             ELSE loop(as_array(val).v, 1, <<>>)
        ELSE Err(invalid_value(array_of_length(n)))

(* deserialize_array!: Ok([T::deserialize(&val[0])?, .., T::deserialize(&val[n-1])?]); *)
(* [T; 0] takes any input                                                  *)
deserialize_array(n, T, val) ==
    LET RECURSIVE loop(_, _, _)
        loop(arr, i, acc) ==
            IF i > n THEN Ok(acc)
            ELSE LET r == Deserialize(T, arr[i])
                 IN  IF IsOk(r) THEN loop(arr, i + 1, Append(acc, r.v)) ELSE r
    IN  IF n = 0 THEN Ok(<<>>)
        ELSE IF as_array(val) # None
        THEN IF Len(as_array(val).v) < n THEN Err(invalid_value(array_of_length(n)))
             ELSE loop(as_array(val).v, 1, <<>>)
        ELSE Err(invalid_value(array_of_length(n)))

(* deserialize_tuple!: Ok((T0::deserialize(&val[0])?, .., Tn::deserialize(&val[n])?)); *)
(* () takes any input                                                      *)
deserialize_tuple(ts, val) ==
    LET RECURSIVE loop(_, _, _)
        loop(arr, i, acc) ==
            IF i > Len(ts) THEN Ok(acc)
            ELSE LET r == Deserialize(ts[i], arr[i])
                 IN  IF IsOk(r) THEN loop(arr, i + 1, Append(acc, r.v)) ELSE r
    IN  IF Len(ts) = 0 THEN Ok(<<>>)
        ELSE IF as_array(val) # None
        THEN IF Len(as_array(val).v) < Len(ts)
             THEN Err(invalid_value(array_of_length(Len(ts))))
             ELSE loop(as_array(val).v, 1, <<>>)
        ELSE Err(invalid_value(array_of_length(Len(ts))))

(* for (name, value) in val { k = K::try_from(name)..?; v = V::deserialize(value)?; *)
(* res.insert(k, v) }; K = String converts every name, the key type "Key"  *)
(* of a user the names of one character, its error reading "invalid key"   *)
deserialize_HashMap(K, V, val) ==
    LET RECURSIVE loop(_, _, _)
        loop(m, i, acc) ==
            IF i > Len(m) THEN Ok(acc)
            ELSE IF K # "String" /\ Len(m[i].key) # 1 THEN Err(invalid_value("invalid key"))
            ELSE LET r == Deserialize(V, m[i].val)
                 IN  IF IsOk(r) THEN loop(m, i + 1, Insert(acc, m[i].key, r.v)) ELSE r
    IN  IF as_map(val) = None THEN Err(invalid_value("map"))
        ELSE loop(as_map(val).v, 1, EmptyMap)

(***************************************************************************)
(* Update for the containers.  A failing element returns at once (`?`),    *)
(* and the receiver keeps what was changed before it.                      *)
(***************************************************************************)
(* A faulty update_Option: a present value is replaced by a deserialized   *)
(* one instead of being updated in place.                                  *)
update_Option_replace(T, self, val) ==
    IF is_none(val) THEN Upd(Ok(Unit), None)
    ELSE LET r == Deserialize(T, val)
         IN  IF IsOk(r) THEN Upd(Ok(Unit), Some(r.v)) ELSE Upd(r, self)

update_Option(T, self, val) ==
    IF is_none(val) THEN Upd(Ok(Unit), None)
    ELSE IF self # None
    THEN LET u == Update(T, self.v, val) IN Upd(u.res, Some(u.self))
    ELSE LET r == Deserialize(T, val)
         IN  IF IsOk(r) THEN Upd(Ok(Unit), Some(r.v)) ELSE Upd(r, self)

(* self.truncate(len) when self.len() > len *)
truncate(self, len) == IF Len(self) > len THEN SubSeq(self, 1, len) ELSE self

(* A faulty update_Vec: the vector is not truncated to the incoming        *)
(* length.                                                                 *)
update_Vec_no_truncate(T, self, val) ==
    LET RECURSIVE loop(_, _, _)
        loop(this, arr, i) ==
            IF i > Len(arr) THEN Upd(Ok(Unit), this)
            ELSE IF i <= Len(this)
            THEN LET u == Update(T, this[i], arr[i])
                 IN  IF IsOk(u.res) THEN loop([this EXCEPT ![i] = u.self], arr, i + 1)
                     ELSE Upd(u.res, [this EXCEPT ![i] = u.self])
            ELSE LET r == Deserialize(T, arr[i])
                 IN  IF IsOk(r) THEN loop(Append(this, r.v), arr, i + 1)
                     ELSE Upd(r, this)
    IN  IF as_array(val) # None
        THEN loop(self, as_array(val).v, 1)
        ELSE Upd(Err(invalid_value("array")), self)

(* A faulty update_Vec: an element whose update failed is put back as it   *)
(* was before the call.                                                    *)
update_Vec_restore_element(T, self, val) ==
    LET RECURSIVE loop(_, _, _)
        loop(this, arr, i) ==
            IF i > Len(arr) THEN Upd(Ok(Unit), this)
            ELSE IF i <= Len(this)
            THEN LET u == Update(T, this[i], arr[i])
                 IN  IF IsOk(u.res) THEN loop([this EXCEPT ![i] = u.self], arr, i + 1)
                     ELSE Upd(u.res, this)
            ELSE LET r == Deserialize(T, arr[i])
                 IN  IF IsOk(r) THEN loop(Append(this, r.v), arr, i + 1)
                     ELSE Upd(r, this)
    IN  IF as_array(val) # None
        THEN loop(truncate(self, Len(as_array(val).v)), as_array(val).v, 1)
        ELSE Upd(Err(invalid_value("array")), self)

(* for (index, elem) in val.iter().enumerate(): update the element in      *)
(* place, or push a deserialized one                                       *)
update_Vec(T, self, val) ==
    LET RECURSIVE loop(_, _, _)
        loop(this, arr, i) ==
            IF i > Len(arr) THEN Upd(Ok(Unit), this)
            ELSE IF i <= Len(this)
            THEN LET u == Update(T, this[i], arr[i])
                 IN  IF IsOk(u.res) THEN loop([this EXCEPT ![i] = u.self], arr, i + 1)
                     ELSE Upd(u.res, [this EXCEPT ![i] = u.self])
            ELSE LET r == Deserialize(T, arr[i])
                 IN  IF IsOk(r) THEN loop(Append(this, r.v), arr, i + 1)
                     ELSE Upd(r, this)
    IN  IF as_array(val) # None
        THEN loop(truncate(self, Len(as_array(val).v)), as_array(val).v, 1)
        ELSE Upd(Err(invalid_value("array")), self)

(* update_array!: for (index, elem) in val.iter().enumerate() {            *)
(* self[index].update(elem)? }: indexing [T; n] at n or beyond panics      *)
update_array(n, T, self, val) ==
    LET RECURSIVE loop(_, _, _)
        loop(this, arr, i) ==
            IF i > Len(arr) THEN Upd(Ok(Unit), this)
            ELSE IF i > n THEN Upd(Panic, this)
            ELSE LET u == Update(T, this[i], arr[i])
                 IN  IF IsOk(u.res) THEN loop([this EXCEPT ![i] = u.self], arr, i + 1)
                     ELSE Upd(u.res, [this EXCEPT ![i] = u.self])
    IN  IF n = 0 THEN Upd(Ok(Unit), self)
        ELSE IF as_array(val) # None
        THEN IF Len(as_array(val).v) < n
             THEN Upd(Err(invalid_value(array_of_length(n))), self)
             ELSE loop(self, as_array(val).v, 1)
        ELSE Upd(Err(invalid_value(array_of_length(n))), self)

(* update_tuple!: self.0.update(&val[0])?; ..; self.k.update(&val[n])?     *)
update_tuple(ts, self, val) ==
    LET RECURSIVE loop(_, _, _)
        loop(this, arr, i) ==
            IF i > Len(ts) THEN Upd(Ok(Unit), this)
            ELSE LET u == Update(ts[i], this[i], arr[i])
                 IN  IF IsOk(u.res) THEN loop([this EXCEPT ![i] = u.self], arr, i + 1)
                     ELSE Upd(u.res, [this EXCEPT ![i] = u.self])
    IN  IF Len(ts) = 0 THEN Upd(Ok(Unit), self)
        ELSE IF as_array(val) # None
        THEN IF Len(as_array(val).v) < Len(ts)
             THEN Upd(Err(invalid_value(array_of_length(Len(ts)))), self)
             ELSE loop(self, as_array(val).v, 1)
        ELSE Upd(Err(invalid_value(array_of_length(Len(ts)))), self)

(* A faulty update_HashMap: the entries whose key the incoming map lacks   *)
(* are removed first.                                                      *)
update_HashMap_retain(K, V, self, val) ==
    LET RECURSIVE loop(_, _, _)
        loop(this, m, i) ==
            IF i > Len(m) THEN Upd(Ok(Unit), this)
            ELSE IF K # "String" /\ Len(m[i].key) # 1
            THEN Upd(Err([k |-> "InvalidKey", v |-> "invalid key"]), this)
            ELSE IF m[i].key \in DOMAIN this
            THEN LET u == Update(V, this[m[i].key], m[i].val)
                 IN  IF IsOk(u.res)
                     THEN loop([this EXCEPT ![m[i].key] = u.self], m, i + 1)
                     ELSE Upd(u.res, [this EXCEPT ![m[i].key] = u.self])
            ELSE LET r == Deserialize(V, m[i].val)
                 IN  IF IsOk(r) THEN loop(Insert(this, m[i].key, r.v), m, i + 1)
                     ELSE Upd(r, this)
    IN  IF as_map(val) = None THEN Upd(Err(invalid_value("map")), self)
        ELSE loop([key \in (DOMAIN self) \cap Keys(as_map(val).v) |-> self[key]],
                  as_map(val).v, 1)

(* for (name, value) in val: k = K::from_str(name), or return              *)
(* Err(Error::InvalidKey(..)); V::update on the entry the key has, else    *)
(* insert(k, V::deserialize(value)?)                                       *)
update_HashMap(K, V, self, val) ==
    LET RECURSIVE loop(_, _, _)
        loop(this, m, i) ==
            IF i > Len(m) THEN Upd(Ok(Unit), this)
            ELSE IF K # "String" /\ Len(m[i].key) # 1
            THEN Upd(Err([k |-> "InvalidKey", v |-> "invalid key"]), this)
            ELSE IF m[i].key \in DOMAIN this
            THEN LET u == Update(V, this[m[i].key], m[i].val)
                 IN  IF IsOk(u.res)
                     THEN loop([this EXCEPT ![m[i].key] = u.self], m, i + 1)
                     ELSE Upd(u.res, [this EXCEPT ![m[i].key] = u.self])
            ELSE LET r == Deserialize(V, m[i].val)
                 IN  IF IsOk(r) THEN loop(Insert(this, m[i].key, r.v), m, i + 1)
                     ELSE Upd(r, this)
    IN  IF as_map(val) = None THEN Upd(Err(invalid_value("map")), self)
        ELSE loop(self, as_map(val).v, 1)

(***************************************************************************)
(* Serialize for the containers.                                           *)
(***************************************************************************)
serialize_Option(T, self) == IF self # None THEN Serialize(T, self.v) ELSE Ok(INone)

(* A faulty serialize_slice: the errors of all failing elements are        *)
(* collected, each under its index.                                        *)
serialize_slice_collect(T, v) ==
    LET RECURSIVE loop(_, _, _)
        loop(i, acc, errors) ==
            IF i > Len(v)
            THEN IF errors = <<>> THEN Ok(IArray(acc)) ELSE Err(UnnamedFieldErrors(errors))
            ELSE LET r == Serialize(T, v[i])
                 IN  IF IsOk(r) THEN loop(i + 1, Append(acc, r.v), errors)
                     ELSE loop(i + 1, acc, Append(errors, [field |-> i - 1, error |-> r.v]))
    IN  loop(1, <<>>, <<>>)

(* serialize_slice: for elem in v.iter() { res.push(elem.serialize()?) }   *)
serialize_slice(T, v) ==
    LET RECURSIVE loop(_, _)
        loop(i, acc) ==
            IF i > Len(v) THEN Ok(IArray(acc))
            ELSE LET r == Serialize(T, v[i])
                 IN  IF IsOk(r) THEN loop(i + 1, Append(acc, r.v)) ELSE r
    IN  loop(1, <<>>)

(* serialize_tuple!: vec![self.0.serialize()?, .., self.k.serialize()?];   *)
(* () yields the empty Array                                               *)
serialize_tuple(ts, self) ==
    LET RECURSIVE loop(_, _)
        loop(i, acc) ==
            IF i > Len(ts) THEN Ok(IArray(acc))
            ELSE LET r == Serialize(ts[i], self[i])
                 IN  IF IsOk(r) THEN loop(i + 1, Append(acc, r.v)) ELSE r
    IN  loop(1, <<>>)

(* The order in which a HashMap's iteration yields the keys in `keys`: the *)
(* hasher decides it; the model yields them in one fixed order.            *)
RECURSIVE IterOrder(_)
IterOrder(keys) ==
    IF keys = {} THEN <<>>
    ELSE LET key == CHOOSE x \in keys : TRUE
         IN  <<key>> \o IterOrder(keys \ {key})

(* Map::insert_with_owned_key / insert_with_str_key: a key the map holds   *)
(* gets the new value, another key a new entry                             *)
MapInsert(m, key, val) ==
    IF key \in Keys(m)
    THEN [i \in DOMAIN m |-> IF m[i].key = key THEN Entry(key, val) ELSE m[i]]
    ELSE Append(m, Entry(key, val))

(* for (k, v) in self.iter() { res.insert_with_owned_key(k.to_string(), v.serialize()?) } *)
serialize_HashMap(V, self) ==
    LET order == IterOrder(DOMAIN self)
        RECURSIVE loop(_, _)
        loop(i, acc) ==
            IF i > Len(order) THEN Ok(IMap(acc))
            ELSE LET r == Serialize(V, self[order[i]])
                 IN  IF IsOk(r) THEN loop(i + 1, MapInsert(acc, order[i], r.v)) ELSE r
    IN  loop(1, <<>>)

(* Intermediate as a type of its own: deserialize and serialize clone it   *)
TIntermediate == [k |-> "Intermediate"]

(* Update for Intermediate: an Array is updated from an Array as a         *)
(* Vec<Intermediate>, a Map from a Map as a map of Intermediate; any other *)
(* pair replaces the value                                                 *)
update_Intermediate(self, other) ==
    LET RECURSIVE loop(_, _, _)
        loop(this, m, i) ==
            IF i > Len(m) THEN Upd(Ok(Unit), IMap(this))
            ELSE IF m[i].key \in Keys(this)
            THEN LET u == Update(TIntermediate, MapGet(this, m[i].key).v, m[i].val)
                     next == MapInsert(this, m[i].key, u.self)
                 IN  IF IsOk(u.res) THEN loop(next, m, i + 1) ELSE Upd(u.res, IMap(next))
            ELSE loop(MapInsert(this, m[i].key, m[i].val), m, i + 1)
    IN  CASE self.k = "Array" /\ other.k = "Array" ->
               LET u == update_Vec(TIntermediate, self.v, other)
               IN  Upd(u.res, IArray(u.self))
          [] self.k = "Map" /\ other.k = "Map" -> loop(self.v, other.v, 1)
          [] OTHER -> Upd(Ok(Unit), other)

(***************************************************************************)
(* The derived types.  A struct's or variant's named fields are a sequence *)
(* of Field in declaration order; attrs holds the flags among skip,        *)
(* skip_serializing, skip_deserializing, flatten and default; name is the  *)
(* rename attribute or the identifier.  A variant's fields are Named,      *)
(* Unnamed or Unit.                                                        *)
(***************************************************************************)
Field(ident, name, T, attrs) == [ident |-> ident, name |-> name, ty |-> T, attrs |-> attrs]

Named(fields) == [k |-> "Named", v |-> fields]

Unnamed(ts) == [k |-> "Unnamed", v |-> ts]

UnitFields == [k |-> "Unit"]

Variant(ident, name, fields) == [ident |-> ident, name |-> name, fields |-> fields]

(* struct S { .. } *)
TStruct(fields) == [k |-> "Struct", v |-> fields]

(* struct S(T0, T1, ..) *)
TTupleStruct(ts) == [k |-> "TupleStruct", v |-> ts]

(* enum E { .. } without a tag attribute: externally tagged *)
TEnum(variants) == [k |-> "Enum", v |-> variants]

(* #[serde(tag = "..")] enum E { .. }: internally tagged, content is None; *)
(* #[serde(tag = "..", content = "..")]: adjacently tagged, content is Some *)
TTaggedEnum(tag, content, variants) ==
    [k |-> "TaggedEnum", v |-> variants, tag |-> tag, content |-> content]

(* Self::ident { .. } / Self::ident(..) / Self::ident *)
EnumValue(ident, content) == [k |-> ident, v |-> content]

FieldError(field, error) == [field |-> field, error |-> error]

array_of_length_n(n) == "array of length " \o ToString(n)

(***************************************************************************)
(* Deserialize, as derived.                                                *)
(***************************************************************************)
(* A faulty deserialize_named_fields: the first field that fails ends the  *)
(* call with an aggregate of its error alone.                              *)
deserialize_named_fields_fail_fast(fields, val) ==
    LET obj == as_map(val).v
        RECURSIVE loop(_, _)
        loop(i, acc) ==
            IF i > Len(fields) THEN Ok(acc)
            ELSE LET f == fields[i]
                     r == IF "flatten" \in f.attrs THEN Deserialize(f.ty, val)
                          ELSE IF MapGet(obj, f.name) # None
                          THEN Deserialize(f.ty, MapGet(obj, f.name).v)
                          ELSE IF "default" \in f.attrs THEN Ok(Default(f.ty))
                          ELSE Err(MissingField)
                 IN  IF f.attrs \cap {"skip", "skip_deserializing"} # {}
                     THEN loop(i + 1, Insert(acc, f.ident, Default(f.ty)))
                     ELSE IF IsOk(r) THEN loop(i + 1, Insert(acc, f.ident, r.v))
                     ELSE IF "flatten" \in f.attrs THEN r
                     ELSE Err(NamedFieldErrors(<<FieldError(f.name, r.v)>>))
    IN  IF Len(fields) = 0 THEN Ok(EmptyMap)
        ELSE IF as_map(val) = None THEN Err(invalid_value("object"))
        ELSE loop(1, EmptyMap)

(* A faulty deserialize_named_fields: the default attribute is not looked  *)
(* at, a missing key is a missing field.                                   *)
deserialize_named_fields_no_default(fields, val) ==
    LET obj == as_map(val).v
        RECURSIVE loop(_, _, _)
        loop(i, acc, errors) ==
            IF i > Len(fields)
            THEN IF errors # <<>> THEN Err(NamedFieldErrors(errors)) ELSE Ok(acc)
            ELSE LET f == fields[i]
                     r == IF "flatten" \in f.attrs THEN Deserialize(f.ty, val)
                          ELSE IF MapGet(obj, f.name) # None
                          THEN Deserialize(f.ty, MapGet(obj, f.name).v)
                          ELSE Err(MissingField)
                 IN  IF f.attrs \cap {"skip", "skip_deserializing"} # {}
                     THEN loop(i + 1, Insert(acc, f.ident, Default(f.ty)), errors)
                     ELSE IF IsOk(r) THEN loop(i + 1, Insert(acc, f.ident, r.v), errors)
                     ELSE IF "flatten" \in f.attrs
                     THEN IF r.v.k = "NamedFieldErrors" THEN loop(i + 1, acc, errors \o r.v.v)
                          ELSE r
                     ELSE loop(i + 1, acc, Append(errors, FieldError(f.name, r.v)))
    IN  IF Len(fields) = 0 THEN Ok(EmptyMap)
        ELSE IF as_map(val) = None THEN Err(invalid_value("object"))
        ELSE loop(1, EmptyMap, <<>>)

(* deserialize_named_fields: every field is tried, the errors are          *)
(* collected; a flatten field's error that is no NamedFieldErrors returns  *)
deserialize_named_fields(fields, val) ==
    LET obj == as_map(val).v
        RECURSIVE loop(_, _, _)
        loop(i, acc, errors) ==
            IF i > Len(fields)
            THEN IF errors # <<>> THEN Err(NamedFieldErrors(errors)) ELSE Ok(acc)
            ELSE LET f == fields[i]
                     r == IF "flatten" \in f.attrs THEN Deserialize(f.ty, val)
                          ELSE IF MapGet(obj, f.name) # None
                          THEN Deserialize(f.ty, MapGet(obj, f.name).v)
                          ELSE IF "default" \in f.attrs THEN Ok(Default(f.ty))
                          ELSE Err(MissingField)
                 IN  IF f.attrs \cap {"skip", "skip_deserializing"} # {}
                     THEN loop(i + 1, Insert(acc, f.ident, Default(f.ty)), errors)
                     ELSE IF IsOk(r) THEN loop(i + 1, Insert(acc, f.ident, r.v), errors)
                     ELSE IF "flatten" \in f.attrs
                     THEN IF r.v.k = "NamedFieldErrors" THEN loop(i + 1, acc, errors \o r.v.v)
                          ELSE r
                     ELSE loop(i + 1, acc, Append(errors, FieldError(f.name, r.v)))
    IN  IF Len(fields) = 0 THEN Ok(EmptyMap)
        ELSE IF as_map(val) = None THEN Err(invalid_value("object"))
        ELSE loop(1, EmptyMap, <<>>)

(* A faulty deserialize_unnamed_fields: one field takes the value itself   *)
(* or the Array holding it, as update_unnamed_fields does.                 *)
deserialize_unnamed_fields_unwrap(ts, val) ==
    LET RECURSIVE loop(_, _, _, _)
        loop(arr, i, acc, errors) ==
            IF i > Len(ts)
            THEN IF errors = <<>> THEN Ok(acc)
                 ELSE IF Len(ts) = 1 THEN Err(errors[Len(errors)].error)
                 ELSE Err(UnnamedFieldErrors(errors))
            ELSE LET r == Deserialize(ts[i], arr[i])
                 IN  IF IsOk(r) THEN loop(arr, i + 1, Append(acc, r.v), errors)
                     ELSE loop(arr, i + 1, acc, Append(errors, FieldError(i - 1, r.v)))
        arr == IF as_array(val) # None THEN as_array(val).v ELSE <<val>>
    IN  IF Len(ts) = 0 THEN Ok(<<>>)
        ELSE IF Len(ts) > 1 /\ as_array(val) = None THEN Err(invalid_value("array"))
        ELSE IF Len(arr) < Len(ts) THEN Err(invalid_value(array_of_length_n(Len(ts))))
        ELSE loop(arr, 1, <<>>, <<>>)

(* deserialize_unnamed_fields: one field takes the value itself and fails  *)
(* with its own error; two or more take an Array and collect the errors    *)
deserialize_unnamed_fields(ts, val) ==
    LET RECURSIVE loop(_, _, _, _)
        loop(arr, i, acc, errors) ==
            IF i > Len(ts)
            THEN IF errors = <<>> THEN Ok(acc)
                 ELSE IF Len(ts) = 1 THEN Err(errors[Len(errors)].error)
                 ELSE Err(UnnamedFieldErrors(errors))
            ELSE LET r == Deserialize(ts[i], arr[i])
                 IN  IF IsOk(r) THEN loop(arr, i + 1, Append(acc, r.v), errors)
                     ELSE loop(arr, i + 1, acc, Append(errors, FieldError(i - 1, r.v)))
    IN  CASE Len(ts) = 0 -> Ok(<<>>)
          [] Len(ts) = 1 -> loop(<<val>>, 1, <<>>, <<>>)
          [] OTHER ->
              IF as_array(val) = None THEN Err(invalid_value("array"))
              ELSE IF Len(as_array(val).v) < Len(ts)
              THEN Err(invalid_value(array_of_length_n(Len(ts))))
              ELSE loop(as_array(val).v, 1, <<>>, <<>>)

construct_struct_enum_variant(variant, content) ==
    LET r == deserialize_named_fields(variant.fields.v, content)
    IN  IF IsOk(r) THEN Ok(EnumValue(variant.ident, r.v)) ELSE r

construct_tuple_enum_variant(variant, content) ==
    LET r == deserialize_unnamed_fields(variant.fields.v, content)
    IN  IF IsOk(r) THEN Ok(EnumValue(variant.ident, r.v)) ELSE r

construct_unit_enum_variant(variant) == Ok(EnumValue(variant.ident, <<>>))

construct_enum_variant_with_content(variant, content) ==
    CASE variant.fields.k = "Named" -> construct_struct_enum_variant(variant, content)
      [] variant.fields.k = "Unnamed" -> construct_tuple_enum_variant(variant, content)
      [] variant.fields.k = "Unit" -> construct_unit_enum_variant(variant)

(* A faulty construct_enum_variant_without_content: the content field is   *)
(* not looked at, the missing content is reported as for an externally     *)
(* tagged enum.                                                            *)
construct_enum_variant_without_content_external(variant, content_field) ==
    CASE variant.fields.k = "Unit" -> construct_unit_enum_variant(variant)
      [] variant.fields.k = "Named" /\ Len(variant.fields.v) = 0 ->
          construct_struct_enum_variant(variant, INone)
      [] variant.fields.k = "Unnamed" /\ Len(variant.fields.v) = 0 ->
          construct_tuple_enum_variant(variant, INone)
      [] OTHER -> Err(MissingEnumVariantContent)

(* a variant of no fields is built from nothing; the others miss their content *)
construct_enum_variant_without_content(variant, content_field) ==
    CASE variant.fields.k = "Unit" -> construct_unit_enum_variant(variant)
      [] variant.fields.k = "Named" /\ Len(variant.fields.v) = 0 ->
          construct_struct_enum_variant(variant, INone)
      [] variant.fields.k = "Unnamed" /\ Len(variant.fields.v) = 0 ->
          construct_tuple_enum_variant(variant, INone)
      [] OTHER ->
          IF content_field # None
          THEN Err(NamedFieldErrors(<<FieldError(content_field.v, MissingField)>>))
          ELSE Err(MissingEnumVariantContent)

(* The first variant in declaration order whose name is in names, if any:  *)
(* the if / else-if chain and the match of the generated code.             *)
FirstVariant(variants, names) ==
    IF \E i \in DOMAIN variants : variants[i].name \in names
    THEN Some(variants[CHOOSE i \in DOMAIN variants :
                           /\ variants[i].name \in names
                           /\ \A j \in 1..(i - 1) : variants[j].name \notin names])
    ELSE None

(* A faulty expand_externally_tagged_enum: a map that does not hold        *)
(* exactly one entry names no variant.                                     *)
deserialize_externally_tagged_enum_single_key(variants, val) ==
    IF as_map(val) # None
    THEN LET hit == FirstVariant(variants, Keys(as_map(val).v))
         IN  IF hit # None /\ Len(as_map(val).v) = 1
             THEN construct_enum_variant_with_content(hit.v, MapGet(as_map(val).v, hit.v.name).v)
             ELSE Err(UnknownEnumVariant)
    ELSE IF as_str(val) # None
    THEN LET hit == FirstVariant(variants, {as_str(val).v})
         IN  IF hit # None THEN construct_enum_variant_without_content(hit.v, None)
             ELSE Err(UnknownEnumVariant)
    ELSE Err(invalid_value("enum variant"))

(* expand_externally_tagged_enum of derive(Deserialize) *)
deserialize_externally_tagged_enum(variants, val) ==
    IF as_map(val) # None
    THEN LET hit == FirstVariant(variants, Keys(as_map(val).v))
         IN  IF hit # None
             THEN construct_enum_variant_with_content(hit.v, MapGet(as_map(val).v, hit.v.name).v)
             ELSE Err(UnknownEnumVariant)
    ELSE IF as_str(val) # None
    THEN LET hit == FirstVariant(variants, {as_str(val).v})
         IN  IF hit # None THEN construct_enum_variant_without_content(hit.v, None)
             ELSE Err(UnknownEnumVariant)
    ELSE Err(invalid_value("enum variant"))

(* if let Some(__content) = __content { .. } else { .. } *)
construct_enum_variant(variant, content_field, content) ==
    IF content # None THEN construct_enum_variant_with_content(variant, content.v)
    ELSE construct_enum_variant_without_content(variant, content_field)

(* expand_internally_tagged_enum of derive(Deserialize), for an internally *)
(* and for an adjacently tagged enum: the tag entry names the variant; the *)
(* content is the whole input, or the entry of the content field, if any   *)
deserialize_internally_tagged_enum(T, val) ==
    IF as_map(val) = None THEN Err(invalid_value("object"))
    ELSE LET obj == as_map(val).v
             tag == MapGet(obj, T.tag)
             hit == FirstVariant(T.v, {as_str(tag.v).v})
         IN  IF tag = None THEN Err(NamedFieldErrors(<<FieldError(T.tag, MissingField)>>))
             ELSE IF as_str(tag.v) = None
             THEN Err(NamedFieldErrors(
                      <<FieldError(T.tag, invalid_value("enum variant name"))>>))
             ELSE IF hit = None THEN Err(UnknownEnumVariant)
             ELSE IF T.content # None
             THEN construct_enum_variant(hit.v, T.content, MapGet(obj, T.content.v))
             ELSE construct_enum_variant_with_content(hit.v, val)

(***************************************************************************)
(* Serialize, as derived.                                                  *)
(***************************************************************************)
(* __map.extend(inner) *)
RECURSIVE MapExtend(_, _)
MapExtend(m, inner) ==
    IF inner = <<>> THEN m
    ELSE MapExtend(MapInsert(m, Head(inner).key, Head(inner).val), Tail(inner))

(* A faulty serialize_named_fields: the flatten attribute is not looked at, *)
(* the field's value is an entry under the field's name.                   *)
serialize_named_fields_nested(fields, self) ==
    LET RECURSIVE loop(_, _, _)
        loop(i, map, errors) ==
            IF i > Len(fields)
            THEN IF errors # <<>> THEN Err(NamedFieldErrors(errors)) ELSE Ok(map)
            ELSE LET f == fields[i]
                     r == Serialize(f.ty, self[f.ident])
                 IN  IF f.attrs \cap {"skip", "skip_serializing"} # {}
                     THEN loop(i + 1, map, errors)
                     ELSE IF IsOk(r) THEN loop(i + 1, MapInsert(map, f.name, r.v), errors)
                     ELSE loop(i + 1, map, Append(errors, FieldError(f.name, r.v)))
    IN  loop(1, <<>>, <<>>)

(* serialize_named_fields: the map of the fields that are not skipped; the *)
(* attributes serialize_with and skip_serializing_if are not modelled      *)
serialize_named_fields(fields, self) ==
    LET RECURSIVE loop(_, _, _)
        loop(i, map, errors) ==
            IF i > Len(fields)
            THEN IF errors # <<>> THEN Err(NamedFieldErrors(errors)) ELSE Ok(map)
            ELSE LET f == fields[i]
                     r == Serialize(f.ty, self[f.ident])
                 IN  IF f.attrs \cap {"skip", "skip_serializing"} # {}
                     THEN loop(i + 1, map, errors)
                     ELSE IF "flatten" \in f.attrs
                     THEN IF IsOk(r)
                          THEN IF r.v.k = "Map" THEN loop(i + 1, MapExtend(map, r.v.v), errors)
                               ELSE Err(custom("field \"" \o f.ident \o "\" cannot be flattened"))
                          ELSE IF r.v.k = "NamedFieldErrors"
                          THEN loop(i + 1, map, errors \o r.v.v)
                          ELSE r
                     ELSE IF IsOk(r) THEN loop(i + 1, MapInsert(map, f.name, r.v), errors)
                     ELSE loop(i + 1, map, Append(errors, FieldError(f.name, r.v)))
    IN  loop(1, <<>>, <<>>)

(* serialize_unnamed_fields: no field yields None, one field its own       *)
(* serialized value, two or more an Array                                  *)
serialize_unnamed_fields(ts, self) ==
    LET RECURSIVE loop(_, _, _)
        loop(i, arr, errors) ==
            IF i > Len(ts)
            THEN IF errors # <<>> THEN Err(UnnamedFieldErrors(errors)) ELSE Ok(IArray(arr))
            ELSE LET r == Serialize(ts[i], self[i])
                 IN  IF IsOk(r) THEN loop(i + 1, Append(arr, r.v), errors)
                     ELSE loop(i + 1, arr, Append(errors, FieldError(i - 1, r.v)))
    IN  CASE Len(ts) = 0 -> Ok(INone)
          [] Len(ts) = 1 -> Serialize(ts[1], self[1])
          [] OTHER -> loop(1, <<>>, <<>>)

(* expand_struct_named_fields of derive(Serialize) *)
serialize_struct(fields, self) ==
    LET r == serialize_named_fields(fields, self)
    IN  IF IsOk(r) THEN Ok(IMap(r.v)) ELSE r

(* let (__tag, __content) = match self { .. }: the variant's name and its  *)
(* serialized content                                                      *)
serialize_enum_variant(variants, self) ==
    LET variant == variants[CHOOSE i \in DOMAIN variants : variants[i].ident = self.k]
        r == CASE variant.fields.k = "Named" -> serialize_struct(variant.fields.v, self.v)
               [] variant.fields.k = "Unnamed" ->
                   serialize_unnamed_fields(variant.fields.v, self.v)
               [] variant.fields.k = "Unit" -> Ok(INone)
    IN  IF IsOk(r) THEN Ok([tag |-> variant.name, content |-> r.v]) ELSE r

(* expand_externally_tagged_enum of derive(Serialize) *)
serialize_externally_tagged_enum(variants, self) ==
    LET r == serialize_enum_variant(variants, self)
    IN  IF ~IsOk(r) THEN r
        ELSE IF is_none(r.v.content) THEN Ok(IString(r.v.tag))
        ELSE Ok(IMap(MapInsert(<<>>, r.v.tag, r.v.content)))

(* A faulty expand_internally_tagged_enum of derive(Serialize): an empty   *)
(* Array counts as no content.                                             *)
serialize_internally_tagged_enum_empty_array(T, self) ==
    LET r == serialize_enum_variant(T.v, self)
        tagged == MapInsert(<<>>, T.tag, IString(r.v.tag))
    IN  IF ~IsOk(r) THEN r
        ELSE IF is_none(r.v.content) \/ r.v.content = IArray(<<>>) THEN Ok(IMap(tagged))
        ELSE IF r.v.content.k = "Map" THEN Ok(IMap(MapExtend(tagged, r.v.content.v)))
        ELSE Err(custom("enum cannot be tagged internally"))

(* expand_internally_tagged_enum of derive(Serialize) *)
serialize_internally_tagged_enum(T, self) ==
    LET r == serialize_enum_variant(T.v, self)
        tagged == MapInsert(<<>>, T.tag, IString(r.v.tag))
    IN  IF ~IsOk(r) THEN r
        ELSE IF is_none(r.v.content) THEN Ok(IMap(tagged))
        ELSE IF r.v.content.k = "Map" THEN Ok(IMap(MapExtend(tagged, r.v.content.v)))
        ELSE Err(custom("enum cannot be tagged internally"))

(* A faulty expand_adjacently_tagged_enum: a content of None gets no entry. *)
serialize_adjacently_tagged_enum_skip_none(T, self) ==
    LET r == serialize_enum_variant(T.v, self)
        tagged == MapInsert(<<>>, T.tag, IString(r.v.tag))
    IN  IF ~IsOk(r) THEN r
        ELSE IF is_none(r.v.content) THEN Ok(IMap(tagged))
        ELSE Ok(IMap(MapInsert(tagged, T.content.v, r.v.content)))

(* expand_adjacently_tagged_enum of derive(Serialize) *)
serialize_adjacently_tagged_enum(T, self) ==
    LET r == serialize_enum_variant(T.v, self)
    IN  IF ~IsOk(r) THEN r
        ELSE Ok(IMap(MapInsert(MapInsert(<<>>, T.tag, IString(r.v.tag)),
                               T.content.v, r.v.content)))

(***************************************************************************)
(* Update, as derived.                                                     *)
(***************************************************************************)
(* A faulty update_named_fields: a field marked skip or skip_deserializing *)
(* is updated like any other.                                              *)
update_named_fields_no_skip(fields, self, val) ==
    LET obj == as_map(val).v
        RECURSIVE loop(_, _, _)
        loop(i, this, errors) ==
            IF i > Len(fields)
            THEN Upd(IF errors # <<>> THEN Err(NamedFieldErrors(errors)) ELSE Ok(Unit), this)
            ELSE LET f == fields[i]
                     u == Update(f.ty, this[f.ident],
                                 IF "flatten" \in f.attrs THEN val ELSE MapGet(obj, f.name).v)
                     next == [this EXCEPT ![f.ident] = u.self]
                 IN  IF "flatten" \in f.attrs
                     THEN IF IsOk(u.res) THEN loop(i + 1, next, errors)
                          ELSE IF IsErr(u.res) /\ u.res.v.k = "NamedFieldErrors"
                          THEN loop(i + 1, next, errors \o u.res.v.v)
                          ELSE Upd(u.res, next)
                     ELSE IF MapGet(obj, f.name) = None THEN loop(i + 1, this, errors)
                     ELSE IF IsOk(u.res) THEN loop(i + 1, next, errors)
                     ELSE IF IsErr(u.res)
                     THEN loop(i + 1, next, Append(errors, FieldError(f.name, u.res.v)))
                     ELSE Upd(u.res, next)
    IN  IF Len(fields) = 0 THEN Upd(Ok(Unit), self)
        ELSE IF as_map(val) = None THEN Upd(Err(invalid_value("object")), self)
        ELSE loop(1, self, <<>>)

(* A faulty update_named_fields: when a field has failed, the receiver is  *)
(* put back as it was before the call.                                     *)
update_named_fields_rollback(fields, self, val) ==
    LET obj == as_map(val).v
        RECURSIVE loop(_, _, _)
        loop(i, this, errors) ==
            IF i > Len(fields)
            THEN IF errors # <<>> THEN Upd(Err(NamedFieldErrors(errors)), self)
                 ELSE Upd(Ok(Unit), this)
            ELSE LET f == fields[i]
                     u == Update(f.ty, this[f.ident],
                                 IF "flatten" \in f.attrs THEN val ELSE MapGet(obj, f.name).v)
                     next == [this EXCEPT ![f.ident] = u.self]
                 IN  IF f.attrs \cap {"skip", "skip_deserializing"} # {}
                     THEN loop(i + 1, this, errors)
                     ELSE IF "flatten" \in f.attrs
                     THEN IF IsOk(u.res) THEN loop(i + 1, next, errors)
                          ELSE IF IsErr(u.res) /\ u.res.v.k = "NamedFieldErrors"
                          THEN loop(i + 1, next, errors \o u.res.v.v)
                          ELSE Upd(u.res, self)
                     ELSE IF MapGet(obj, f.name) = None THEN loop(i + 1, this, errors)
                     ELSE IF IsOk(u.res) THEN loop(i + 1, next, errors)
                     ELSE IF IsErr(u.res)
                     THEN loop(i + 1, next, Append(errors, FieldError(f.name, u.res.v)))
                     ELSE Upd(u.res, self)
    IN  IF Len(fields) = 0 THEN Upd(Ok(Unit), self)
        ELSE IF as_map(val) = None THEN Upd(Err(invalid_value("object")), self)
        ELSE loop(1, self, <<>>)

(* update_named_fields: a field is updated when its key is there; the      *)
(* errors are collected, the fields updated before stay updated            *)
update_named_fields(fields, self, val) ==
    LET obj == as_map(val).v
        RECURSIVE loop(_, _, _)
        loop(i, this, errors) ==
            IF i > Len(fields)
            THEN Upd(IF errors # <<>> THEN Err(NamedFieldErrors(errors)) ELSE Ok(Unit), this)
            ELSE LET f == fields[i]
                     u == Update(f.ty, this[f.ident],
                                 IF "flatten" \in f.attrs THEN val ELSE MapGet(obj, f.name).v)
                     next == [this EXCEPT ![f.ident] = u.self]
                 IN  IF f.attrs \cap {"skip", "skip_deserializing"} # {}
                     THEN loop(i + 1, this, errors)
                     ELSE IF "flatten" \in f.attrs
                     THEN IF IsOk(u.res) THEN loop(i + 1, next, errors)
                          ELSE IF IsErr(u.res) /\ u.res.v.k = "NamedFieldErrors"
                          THEN loop(i + 1, next, errors \o u.res.v.v)
                          ELSE Upd(u.res, next)
                     ELSE IF MapGet(obj, f.name) = None THEN loop(i + 1, this, errors)
                     ELSE IF IsOk(u.res) THEN loop(i + 1, next, errors)
                     ELSE IF IsErr(u.res)
                     THEN loop(i + 1, next, Append(errors, FieldError(f.name, u.res.v)))
                     ELSE Upd(u.res, next)
    IN  IF Len(fields) = 0 THEN Upd(Ok(Unit), self)
        ELSE IF as_map(val) = None THEN Upd(Err(invalid_value("object")), self)
        ELSE loop(1, self, <<>>)

(* A faulty update_unnamed_fields: one field takes the value itself only,  *)
(* as deserialize_unnamed_fields does.                                     *)
update_unnamed_fields_bare(ts, self, val) ==
    LET RECURSIVE loop(_, _, _, _)
        loop(arr, i, this, errors) ==
            IF i > Len(ts)
            THEN IF errors = <<>> THEN Upd(Ok(Unit), this)
                 ELSE IF Len(ts) = 1 THEN Upd(Err(errors[Len(errors)].error), this)
                 ELSE Upd(Err(UnnamedFieldErrors(errors)), this)
            ELSE LET u == Update(ts[i], this[i], arr[i])
                     next == [this EXCEPT ![i] = u.self]
                 IN  IF IsOk(u.res) THEN loop(arr, i + 1, next, errors)
                     ELSE IF IsErr(u.res)
                     THEN loop(arr, i + 1, next, Append(errors, FieldError(i - 1, u.res.v)))
                     ELSE Upd(u.res, next)
        arr == IF Len(ts) > 1 THEN as_array(val).v ELSE <<val>>
    IN  IF Len(ts) = 0 THEN Upd(Ok(Unit), self)
        ELSE IF Len(ts) > 1 /\ as_array(val) = None
        THEN Upd(Err(invalid_value("array")), self)
        ELSE IF Len(arr) < Len(ts)
        THEN Upd(Err(invalid_value(array_of_length_n(Len(ts)))), self)
        ELSE loop(arr, 1, self, <<>>)

(* A faulty update_unnamed_fields: the error of a single field is returned *)
(* as it is, also when the input was an Array.                             *)
update_unnamed_fields_own_error(ts, self, val) ==
    LET RECURSIVE loop(_, _, _, _)
        loop(arr, i, this, errors) ==
            IF i > Len(ts)
            THEN IF errors = <<>> THEN Upd(Ok(Unit), this)
                 ELSE IF Len(ts) = 1
                 THEN Upd(Err(errors[Len(errors)].error), this)
                 ELSE Upd(Err(UnnamedFieldErrors(errors)), this)
            ELSE LET u == Update(ts[i], this[i], arr[i])
                     next == [this EXCEPT ![i] = u.self]
                 IN  IF IsOk(u.res) THEN loop(arr, i + 1, next, errors)
                     ELSE IF IsErr(u.res)
                     THEN loop(arr, i + 1, next, Append(errors, FieldError(i - 1, u.res.v)))
                     ELSE Upd(u.res, next)
        arr == IF as_array(val) # None THEN as_array(val).v ELSE <<val>>
    IN  IF Len(ts) = 0 THEN Upd(Ok(Unit), self)
        ELSE IF Len(ts) > 1 /\ as_array(val) = None
        THEN Upd(Err(invalid_value("array")), self)
        ELSE IF Len(arr) < Len(ts)
        THEN Upd(Err(invalid_value(array_of_length_n(Len(ts)))), self)
        ELSE loop(arr, 1, self, <<>>)

(* update_unnamed_fields: one field takes the value itself or the Array    *)
(* holding it; two or more take an Array                                   *)
update_unnamed_fields(ts, self, val) ==
    LET RECURSIVE loop(_, _, _, _)
        loop(arr, i, this, errors) ==
            IF i > Len(ts)
            THEN IF errors = <<>> THEN Upd(Ok(Unit), this)
                 ELSE IF Len(ts) = 1 /\ as_array(val) = None
                 THEN Upd(Err(errors[Len(errors)].error), this)
                 ELSE Upd(Err(UnnamedFieldErrors(errors)), this)
            ELSE LET u == Update(ts[i], this[i], arr[i])
                     next == [this EXCEPT ![i] = u.self]
                 IN  IF IsOk(u.res) THEN loop(arr, i + 1, next, errors)
                     ELSE IF IsErr(u.res)
                     THEN loop(arr, i + 1, next, Append(errors, FieldError(i - 1, u.res.v)))
                     ELSE Upd(u.res, next)
        arr == IF as_array(val) # None THEN as_array(val).v ELSE <<val>>
    IN  IF Len(ts) = 0 THEN Upd(Ok(Unit), self)
        ELSE IF Len(ts) > 1 /\ as_array(val) = None
        THEN Upd(Err(invalid_value("array")), self)
        ELSE IF Len(arr) < Len(ts)
        THEN Upd(Err(invalid_value(array_of_length_n(Len(ts)))), self)
        ELSE loop(arr, 1, self, <<>>)

(* A faulty update_struct_enum_variant: a receiver in another variant is   *)
(* moved to the variant with default fields, which are then updated from   *)
(* the content.                                                            *)
update_struct_enum_variant_merge(T, variant, self, content, val) ==
    LET fields == variant.fields.v
        fresh == [id \in {fields[i].ident : i \in DOMAIN fields} |->
                     Default((CHOOSE f \in {fields[i] : i \in DOMAIN fields} : f.ident = id).ty)]
        u == update_named_fields(fields, IF self.k = variant.ident THEN self.v ELSE fresh,
                                 content)
    IN  Upd(u.res, EnumValue(variant.ident, u.self))

(* if let Self::ident { .. } = self: the fields are updated from the       *)
(* content; else *self = Self::deserialize(__val)?, of the whole input     *)
update_struct_enum_variant(T, variant, self, content, val) ==
    IF self.k = variant.ident
    THEN LET u == update_named_fields(variant.fields.v, self.v, content)
         IN  Upd(u.res, EnumValue(self.k, u.self))
    ELSE LET r == Deserialize(T, val)
         IN  IF IsOk(r) THEN Upd(Ok(Unit), r.v) ELSE Upd(r, self)

update_tuple_enum_variant(T, variant, self, content, val) ==
    IF self.k = variant.ident
    THEN LET u == update_unnamed_fields(variant.fields.v, self.v, content)
         IN  Upd(u.res, EnumValue(self.k, u.self))
    ELSE LET r == Deserialize(T, val)
         IN  IF IsOk(r) THEN Upd(Ok(Unit), r.v) ELSE Upd(r, self)

(* *self = Self::ident *)
update_unit_enum_variant(variant) == Upd(Ok(Unit), EnumValue(variant.ident, <<>>))

update_enum_variant_with_content(T, variant, self, content, val) ==
    CASE variant.fields.k = "Named" -> update_struct_enum_variant(T, variant, self, content, val)
      [] variant.fields.k = "Unnamed" -> update_tuple_enum_variant(T, variant, self, content, val)
      [] variant.fields.k = "Unit" -> update_unit_enum_variant(variant)

update_enum_variant_without_content(T, variant, content_field, self, val) ==
    CASE variant.fields.k = "Unit" -> update_unit_enum_variant(variant)
      [] variant.fields.k = "Named" /\ Len(variant.fields.v) = 0 ->
          update_struct_enum_variant(T, variant, self, INone, val)
      [] variant.fields.k = "Unnamed" /\ Len(variant.fields.v) = 0 ->
          update_tuple_enum_variant(T, variant, self, INone, val)
      [] OTHER ->
          IF content_field # None
          THEN Upd(Err(NamedFieldErrors(<<FieldError(content_field.v, MissingField)>>)), self)
          ELSE Upd(Err(MissingEnumVariantContent), self)

(* expand_externally_tagged_enum of derive(Update) *)
update_externally_tagged_enum(T, self, val) ==
    IF as_map(val) # None
    THEN LET hit == FirstVariant(T.v, Keys(as_map(val).v))
         IN  IF hit # None
             THEN update_enum_variant_with_content(
                      T, hit.v, self, MapGet(as_map(val).v, hit.v.name).v, val)
             ELSE Upd(Err(UnknownEnumVariant), self)
    ELSE IF as_str(val) # None
    THEN LET hit == FirstVariant(T.v, {as_str(val).v})
         IN  IF hit # None THEN update_enum_variant_without_content(T, hit.v, None, self, val)
             ELSE Upd(Err(UnknownEnumVariant), self)
    ELSE Upd(Err(invalid_value("enum variant")), self)

(* let __current_variant = match self { .. }: the name of self's variant *)
get_current_enum_variant(variants, self) ==
    variants[CHOOSE i \in DOMAIN variants : variants[i].ident = self.k].name

(* if let Some(__content) = __content { .. } else { .. } *)
update_enum_variant(T, variant, self, content, val) ==
    IF content # None THEN update_enum_variant_with_content(T, variant, self, content.v, val)
    ELSE update_enum_variant_without_content(T, variant, T.content, self, val)

(* A faulty expand_internally_tagged_enum of derive(Update): the tag entry  *)
(* is required, as it is by derive(Deserialize).                           *)
update_internally_tagged_enum_tag_required(T, self, val) ==
    IF as_map(val) = None THEN Upd(Err(invalid_value("object")), self)
    ELSE LET obj == as_map(val).v
             tag == MapGet(obj, T.tag)
             hit == FirstVariant(T.v, {as_str(tag.v).v})
         IN  IF tag = None
             THEN Upd(Err(NamedFieldErrors(<<FieldError(T.tag, MissingField)>>)), self)
             ELSE IF as_str(tag.v) = None
             THEN Upd(Err(NamedFieldErrors(
                          <<FieldError(T.tag, invalid_value("enum variant name"))>>)), self)
             ELSE IF hit = None THEN Upd(Err(UnknownEnumVariant), self)
             ELSE IF T.content # None
             THEN update_enum_variant(T, hit.v, self, MapGet(obj, T.content.v), val)
             ELSE update_enum_variant_with_content(T, hit.v, self, val, val)

(* expand_internally_tagged_enum of derive(Update), for an internally and  *)
(* for an adjacently tagged enum: without a tag entry the variant is the   *)
(* current one                                                             *)
update_internally_tagged_enum(T, self, val) ==
    IF as_map(val) = None THEN Upd(Err(invalid_value("object")), self)
    ELSE LET obj == as_map(val).v
             tag == MapGet(obj, T.tag)
             name == IF tag # None THEN as_str(tag.v)
                     ELSE Some(get_current_enum_variant(T.v, self))
             hit == FirstVariant(T.v, {name.v})
         IN  IF name = None
             THEN Upd(Err(NamedFieldErrors(
                          <<FieldError(T.tag, invalid_value("enum variant name"))>>)), self)
             ELSE IF hit = None THEN Upd(Err(UnknownEnumVariant), self)
             ELSE IF T.content # None
             THEN update_enum_variant(T, hit.v, self, MapGet(obj, T.content.v), val)
             ELSE update_enum_variant_with_content(T, hit.v, self, val, val)

(***************************************************************************)
(* The impls of the three protocols, by type, and Default::default().      *)
(***************************************************************************)
Impl(method, T, self, val) ==
    CASE method = "deserialize" ->
           (CASE T.k = "bool" -> deserialize_bool(val)
              [] T.k = "int" -> deserialize_int(T.v, val)
              [] T.k = "f32" -> deserialize_f32(val)
              [] T.k = "f64" -> deserialize_f64(val)
              [] T.k = "char" -> deserialize_char(val)
              [] T.k = "String" -> deserialize_String(val)
              [] T.k = "Option" -> deserialize_Option(T.v, val)
              [] T.k = "Vec" -> deserialize_Vec(T.v, val)
              [] T.k = "Array" -> deserialize_array(T.n, T.v, val)
              [] T.k = "Tuple" -> deserialize_tuple(T.v, val)
              [] T.k = "HashMap" -> deserialize_HashMap(T.key, T.v, val)
              [] T.k = "Intermediate" -> Ok(val)
              [] T.k = "Struct" -> deserialize_named_fields(T.v, val)
              [] T.k = "TupleStruct" -> deserialize_unnamed_fields(T.v, val)
              [] T.k = "Enum" -> deserialize_externally_tagged_enum(T.v, val)
              [] T.k = "TaggedEnum" -> deserialize_internally_tagged_enum(T, val))
      [] method = "update" ->
           (CASE T.k = "bool" -> update_bool(self, val)
              [] T.k = "int" -> update_int(T.v, self, val)
              [] T.k = "f32" -> update_f32(self, val)
              [] T.k = "f64" -> update_f64(self, val)
              [] T.k = "char" -> update_char(self, val)
              [] T.k = "String" -> update_String(self, val)
              [] T.k = "Option" -> update_Option(T.v, self, val)
              [] T.k = "Vec" -> update_Vec(T.v, self, val)
              [] T.k = "Array" -> update_array(T.n, T.v, self, val)
              [] T.k = "Tuple" -> update_tuple(T.v, self, val)
              [] T.k = "HashMap" -> update_HashMap(T.key, T.v, self, val)
              [] T.k = "Intermediate" -> update_Intermediate(self, val)
              [] T.k = "Struct" -> update_named_fields(T.v, self, val)
              [] T.k = "TupleStruct" -> update_unnamed_fields(T.v, self, val)
              [] T.k = "Enum" -> update_externally_tagged_enum(T, self, val)
              [] T.k = "TaggedEnum" -> update_internally_tagged_enum(T, self, val))
      [] method = "serialize" ->
           (CASE T.k = "bool" -> serialize_bool(self)
              [] T.k = "int" -> serialize_int(T.v, self)
              [] T.k \in {"f32", "f64"} -> serialize_float(self)
              [] T.k = "char" -> serialize_char(self)
              [] T.k = "String" -> serialize_String(self)
              [] T.k = "Option" -> serialize_Option(T.v, self)
              [] T.k \in {"Vec", "Array"} -> serialize_slice(T.v, self)
              [] T.k = "Tuple" -> serialize_tuple(T.v, self)
              [] T.k = "HashMap" -> serialize_HashMap(T.v, self)
              [] T.k = "Intermediate" -> Ok(self)
              [] T.k = "Struct" -> serialize_struct(T.v, self)
              [] T.k = "TupleStruct" -> serialize_unnamed_fields(T.v, self)
              [] T.k = "Enum" -> serialize_externally_tagged_enum(T.v, self)
              [] T.k = "TaggedEnum" ->
                  IF T.content # None THEN serialize_adjacently_tagged_enum(T, self)
                  ELSE serialize_internally_tagged_enum(T, self))

(* Default::default(), of the types the model gives to a skipped or        *)
(* defaulted field                                                         *)
Default(T) ==
    CASE T.k = "bool" -> FALSE
      [] T.k = "int" -> IntOf(0)
      [] T.k \in {"f32", "f64"} -> NormF(0, 0)
      [] T.k = "String" -> ""
      [] T.k = "Option" -> None
      [] T.k = "Vec" -> <<>>
      [] T.k = "HashMap" -> EmptyMap
      [] T.k = "Array" -> [i \in 1..T.n |-> Default(T.v)]
      [] T.k \in {"Tuple", "TupleStruct"} -> [i \in DOMAIN T.v |-> Default(T.v[i])]

(***************************************************************************)
(* The values and the inputs the model draws.                              *)
(***************************************************************************)
(* The longest Vec the model starts from and the longest Array it feeds to *)
(* one.                                                                    *)
MaxLen == 2

(* How many elements more than [T; n] or a tuple reads the model feeds.    *)
MaxExtra == 1

SeqsUpTo(S, n) == UNION {[1..len -> S] : len \in 0..n}

(* The key orders of the maps the model feeds and the keys of its HashMaps. *)
KeyLists == {<<>>, <<"a">>, <<"b">>, <<"a", "b">>, <<"b", "a">>}

(* The key orders with a name that the key type "Key" does not convert.    *)
BadKeyLists == {<<"ab">>, <<"a", "ab">>, <<"ab", "b">>, <<"b", "ab", "a">>}

(* The Intermediate values fed at a position of type T: values of the      *)
(* shape T reads, and None, which only Option (and the types that read     *)
(* nothing) accept.                                                        *)
RECURSIVE Inputs(_)
RECURSIVE FieldInputs(_, _)
RECURSIVE PositionInputs(_, _, _)

(* the maps holding, for each field from the i-th on, no entry or one; for *)
(* a flattened struct the entries of its own fields, or the map of them    *)
(* under the field's name                                                  *)
FieldInputs(fields, i) ==
    IF i > Len(fields) THEN {<<>>}
    ELSE LET rest == FieldInputs(fields, i + 1)
             f == fields[i]
         IN  IF "flatten" \in f.attrs /\ f.ty.k = "Struct"
             THEN {m \o r : m \in FieldInputs(f.ty.v, 1), r \in rest}
                      \cup {<<Entry(f.name, IMap(m))>> \o r :
                               m \in FieldInputs(f.ty.v, 1), r \in rest}
             ELSE rest \cup {<<Entry(f.name, x)>> \o r : x \in Inputs(f.ty), r \in rest}

(* the arrays of length len holding, from position i on, an input of the   *)
(* position's type, and None past the last type                            *)
PositionInputs(ts, i, len) ==
    IF i > len THEN {<<>>}
    ELSE {<<x>> \o r : x \in (IF i <= Len(ts) THEN Inputs(ts[i]) ELSE {INone}),
                       r \in PositionInputs(ts, i + 1, len)}

(* for the i-th variant: the string of its name, a map of one entry under  *)
(* its name, and a map that before that entry holds one under the name of  *)
(* the variant declared next (of no variant, for the last)                 *)
VariantInputs(variants, i) ==
    LET variant == variants[i]
        other == IF i < Len(variants) THEN variants[i + 1].name ELSE "Other"
    IN  {IString(variant.name)} \cup
        {IMap(more \o <<Entry(variant.name, x)>>) :
            x \in CASE variant.fields.k = "Named" -> Inputs(TStruct(variant.fields.v))
                    [] variant.fields.k = "Unnamed" -> Inputs(TTupleStruct(variant.fields.v))
                    [] variant.fields.k = "Unit" -> {INone, IBool(TRUE)},
            more \in {<<>>, <<Entry(other, INone)>>}}

(* for the i-th variant of a tagged enum: the maps that hold no tag entry,  *)
(* the variant's name or a value that is no string under the tag, and then *)
(* the entries of the variant's content (internally tagged), or no entry   *)
(* or the content under the content field (adjacently tagged)              *)
TaggedInputs(T, i) ==
    LET variant == T.v[i]
        tags == {<<>>, <<Entry(T.tag, IString(variant.name))>>, <<Entry(T.tag, IBool(TRUE))>>}
        contents == CASE variant.fields.k = "Named" -> Inputs(TStruct(variant.fields.v))
                      [] variant.fields.k = "Unnamed" ->
                          Inputs(TTupleStruct(variant.fields.v))
                      [] variant.fields.k = "Unit" -> {INone, IBool(TRUE)}
    IN  IF T.content # None
        THEN {IMap(tag \o more) :
                 tag \in tags,
                 more \in {<<>>} \cup {<<Entry(T.content.v, x)>> : x \in contents}}
        ELSE {IMap(tag \o x.v) : tag \in tags, x \in {y \in contents : y.k = "Map"}}

Inputs(T) ==
    {INone} \cup
    CASE T.k = "bool" -> {IBool(TRUE), IBool(FALSE)}
      [] T.k = "int" -> {INumber(UnsignedInt(IntOf(1))), INumber(SignedInt(IntOf(-1)))}
      [] T.k \in {"f32", "f64"} -> {INumber(Float(NormF(1, -1)))}
      [] T.k \in {"char", "String"} -> {IString("a"), IString("ab")}
      [] T.k = "Option" -> Inputs(T.v)
      [] T.k = "Vec" -> {IArray(a) : a \in SeqsUpTo(Inputs(T.v), MaxLen)}
      [] T.k = "Array" -> {IArray(a) : a \in SeqsUpTo(Inputs(T.v), T.n + MaxExtra)}
      [] T.k = "Tuple" ->
          UNION {{IArray(a) : a \in PositionInputs(T.v, 1, len)} :
                    len \in 0..(Len(T.v) + MaxExtra)}
      [] T.k = "TupleStruct" ->
          UNION {{IArray(a) : a \in PositionInputs(T.v, 1, len)} :
                    len \in 0..(Len(T.v) + MaxExtra)}
              \cup (IF Len(T.v) = 1 THEN Inputs(T.v[1]) ELSE {})
      [] T.k = "HashMap" ->
          UNION {{IMap([i \in DOMAIN ks |-> Entry(ks[i], f[i])]) :
                     f \in [DOMAIN ks -> Inputs(T.v)]} :
                    ks \in KeyLists \cup (IF T.key = "String" THEN {} ELSE BadKeyLists)}
      [] T.k = "Intermediate" ->
          {IBool(FALSE), IArray(<<IBool(FALSE)>>), IArray(<<IBool(TRUE), IBool(FALSE)>>),
           IArray(<<IMap(<<Entry("b", INone)>>)>>), IMap(<<Entry("a", IBool(FALSE))>>),
           IMap(<<Entry("b", IArray(<<>>)), Entry("a", IMap(<<Entry("b", INone)>>))>>)}
      [] T.k = "Struct" -> {IMap(m) : m \in FieldInputs(T.v, 1)}
      [] T.k = "Enum" ->
          UNION {VariantInputs(T.v, i) : i \in DOMAIN T.v}
              \cup {IString("Other"), IMap(<<>>), IMap(<<Entry("Other", INone)>>)}
      [] T.k = "TaggedEnum" ->
          UNION {TaggedInputs(T, i) : i \in DOMAIN T.v}
              \cup {IMap(<<Entry(T.tag, IString("Other"))>>)}

(* The numbers at and next to the ends of the integer type t and of i64    *)
(* and u64: SignedInt holds an i64, UnsignedInt a u64.                     *)
Numbers(t) ==
    LET ends == UNION {{MinOf(u), MaxOf(u)} : u \in {t, "i64", "u64"}}
        near == ends \cup {IntSucc(MaxOf(u)) : u \in {t, "i64"}}
                     \cup {IntPred(MinOf(u)) : u \in {t}}
    IN  {INumber(SignedInt(v)) : v \in {w \in near : InRange(w, "i64")}}
            \cup {INumber(UnsignedInt(v)) : v \in {w \in near : InRange(w, "u64")}}

(* The inputs of a call: those of the type, one value of every other       *)
(* shape, and for an integer type the numbers around the ends.             *)
CallInputs(T) ==
    Inputs(T)
        \cup {IBool(TRUE), INumber(UnsignedInt(IntOf(1))), INumber(Float(NormF(3, 0))),
              INumber(Float(NormF(1, 2^7))), IString("a"), IString("ab"),
              IArray(<<>>), IMap(<<>>)}
        \cup (IF T.k = "int" THEN Numbers(T.v) ELSE {})

(* The values of type T the program starts from. *)
RECURSIVE Values(_)
RECURSIVE FieldValues(_, _)
RECURSIVE PositionValues(_, _)

FieldValues(fields, i) ==
    IF i > Len(fields) THEN {EmptyMap}
    ELSE {Insert(r, fields[i].ident, x) : x \in Values(fields[i].ty),
                                           r \in FieldValues(fields, i + 1)}

PositionValues(ts, i) ==
    IF i > Len(ts) THEN {<<>>}
    ELSE {<<x>> \o r : x \in Values(ts[i]), r \in PositionValues(ts, i + 1)}

Values(T) ==
    CASE T.k = "bool" -> {TRUE, FALSE}
      [] T.k = "int" -> {MinOf(T.v), IntOf(1), MaxOf(T.v)}
      [] T.k \in {"f32", "f64"} -> {NormF(0, 0), NormF(1, -1)}
      [] T.k = "char" -> {"a"}
      [] T.k = "String" -> {"", "a"}
      [] T.k = "Option" -> {None} \cup {Some(x) : x \in Values(T.v)}
      [] T.k = "Vec" -> SeqsUpTo(Values(T.v), MaxLen)
      [] T.k = "Array" -> [1..T.n -> Values(T.v)]
      [] T.k \in {"Tuple", "TupleStruct"} -> PositionValues(T.v, 1)
      [] T.k = "HashMap" ->
          UNION {[keys -> Values(T.v)] : keys \in SUBSET {"a", "b"}}
      [] T.k = "Intermediate" ->
          {INone, IBool(TRUE), IArray(<<>>), IArray(<<IBool(TRUE), IArray(<<>>), INone>>),
           IArray(<<IMap(<<Entry("a", IBool(TRUE))>>)>>), IMap(<<>>),
           IMap(<<Entry("a", IMap(<<Entry("a", INone)>>))>>),
           IMap(<<Entry("a", IBool(TRUE)), Entry("b", IArray(<<IBool(TRUE)>>))>>)}
      [] T.k = "Struct" -> FieldValues(T.v, 1)
      [] T.k \in {"Enum", "TaggedEnum"} ->
          UNION {{EnumValue(T.v[i].ident, x) :
                     x \in CASE T.v[i].fields.k = "Named" -> FieldValues(T.v[i].fields.v, 1)
                             [] T.v[i].fields.k = "Unnamed" ->
                                 PositionValues(T.v[i].fields.v, 1)
                             [] T.v[i].fields.k = "Unit" -> {<<>>}} : i \in DOMAIN T.v}

(***************************************************************************)
(* The types the model runs the protocols on.                              *)
(***************************************************************************)
(* struct Flag { x: bool } *)
Flag == TStruct(<<Field("x", "x", TBool, {})>>)

(* enum TestEnum { Variant1, #[serde(rename = "variant2")] Variant2(bool), *)
(*                 Variant3 { x: bool }, Variant4(Option<bool>),           *)
(*                 Variant5(bool, bool) }                                  *)
TestEnum ==
    TEnum(<<Variant("Variant1", "Variant1", UnitFields),
            Variant("Variant2", "variant2", Unnamed(<<TBool>>)),
            Variant("Variant3", "Variant3", Named(<<Field("x", "x", TBool, {})>>)),
            Variant("Variant4", "Variant4", Unnamed(<<TOption(TBool)>>)),
            Variant("Variant5", "Variant5", Unnamed(<<TBool, TBool>>))>>)

ScalarTypes ==
    {TBool, TF32, TF64, TChar, TString} \cup {TInt(t) : t \in SignedTypes \cup UnsignedTypes}

VecTypes == {TVec(Flag), TVec(TBool)}

MapTypes == {THashMap(Flag), THashMap(TBool)}

OptionTypes == {TOption(Flag), TOption(TBool), TOption(TOption(TBool))}

FixedTypes ==
    {TArray(2, TBool), TArray(1, Flag), TArray(0, TBool), TTuple(<<TBool, TString>>),
     TTuple(<<>>), TTupleStruct(<<TBool, TString>>)}

EnumTypes == {TestEnum}

(* #[serde(tag = "type")]                                                  *)
(* enum InternallyTaggedEnum { Variant1, #[serde(rename = "v2")]           *)
(*     Variant2 { x: bool, y: bool }, Variant3(Flag), Variant4(Vec<bool>), *)
(*     Variant5(bool), Variant6() }                                        *)
InternallyTaggedEnum ==
    TTaggedEnum("type", None,
        <<Variant("Variant1", "Variant1", UnitFields),
          Variant("Variant2", "v2", Named(<<Field("x", "x", TBool, {}),
                                            Field("y", "y", TBool, {})>>)),
          Variant("Variant3", "Variant3", Unnamed(<<Flag>>)),
          Variant("Variant4", "Variant4", Unnamed(<<TVec(TBool)>>)),
          Variant("Variant5", "Variant5", Unnamed(<<TBool>>)),
          Variant("Variant6", "Variant6", Unnamed(<<>>))>>)

(* #[serde(tag = "type", content = "content")]                             *)
(* enum AdjacentlyTaggedEnum { Variant1, #[serde(rename = "v2")]           *)
(*     Variant2(bool, bool), Variant3 { x: bool }, Variant4(),             *)
(*     Variant5(Flag) }                                                    *)
AdjacentlyTaggedEnum ==
    TTaggedEnum("type", Some("content"),
        <<Variant("Variant1", "Variant1", UnitFields),
          Variant("Variant2", "v2", Unnamed(<<TBool, TBool>>)),
          Variant("Variant3", "Variant3", Named(<<Field("x", "x", TBool, {})>>)),
          Variant("Variant4", "Variant4", Unnamed(<<>>)),
          Variant("Variant5", "Variant5", Unnamed(<<Flag>>))>>)

(* struct InnerStruct { x: bool, #[serde(rename = "hello")] y: bool } *)
InnerStruct ==
    TStruct(<<Field("x", "x", TBool, {}), Field("y", "hello", TBool, {})>>)

(* struct OuterStruct { #[serde(flatten)] inner: InnerStruct, z: bool } *)
OuterStruct ==
    TStruct(<<Field("inner", "inner", InnerStruct, {"flatten"}), Field("z", "z", TBool, {})>>)

(* struct DefaultStruct { field1: bool, #[serde(rename = "f2")] field2:    *)
(*                        char, #[serde(default)] foo: bool }              *)
DefaultStruct ==
    TStruct(<<Field("field1", "field1", TBool, {}), Field("field2", "f2", TChar, {}),
              Field("foo", "foo", TBool, {"default"})>>)

(* struct SkipStruct { a: bool, #[serde(skip)] b: bool,                    *)
(*                     #[serde(skip_deserializing)] c: bool }              *)
SkipStruct ==
    TStruct(<<Field("a", "a", TBool, {}), Field("b", "b", TBool, {"skip"}),
              Field("c", "c", TBool, {"skip_deserializing"})>>)

(* struct FlattenedBool { z: bool, #[serde(flatten)] inner: bool } *)
FlattenedBool ==
    TStruct(<<Field("z", "z", TBool, {}), Field("inner", "inner", TBool, {"flatten"})>>)

StructTypes == {OuterStruct, DefaultStruct, SkipStruct, FlattenedBool}

(* struct SingleElementTuple(u32) *)
SingleElementTuple == TTupleStruct(<<TInt("u32")>>)

(* struct SingleElementVec(Vec<bool>) *)
SingleElementVec == TTupleStruct(<<TVec(TBool)>>)

(* enum SingleElementEnum { Variant1, #[serde(rename = "variant2")]        *)
(*                          Variant2(u32) }                                *)
SingleElementEnum ==
    TEnum(<<Variant("Variant1", "Variant1", UnitFields),
            Variant("Variant2", "variant2", Unnamed(<<TInt("u32")>>))>>)

SingleTypes == {SingleElementTuple, SingleElementVec, SingleElementEnum}

(* enum VecEnum { Variant1, Variant2(Vec<bool>) } *)
VecEnum ==
    TEnum(<<Variant("Variant1", "Variant1", UnitFields),
            Variant("Variant2", "Variant2", Unnamed(<<TVec(TBool)>>))>>)

(* Intermediate, VecEnum, and VecEnum tagged adjacently,                   *)
(* #[serde(tag = "type", content = "content")]                             *)
MergeTypes == {TIntermediate, VecEnum, TTaggedEnum("type", Some("content"), VecEnum.v)}

(* Vec<E> and [E; 2] of an enum E of which one variant fails to serialize, *)
(*     #[serde(tag = "type")] enum E { Variant1, Variant5(bool) }          *)
(* and HashMap<String, Flag>                                               *)
CollectTypes ==
    LET E == TTaggedEnum("type", None,
                 <<Variant("Variant1", "Variant1", UnitFields),
                   Variant("Variant5", "Variant5", Unnamed(<<TBool>>))>>)
    IN  {TVec(E), TArray(2, E), THashMap(Flag)}

(* SingleElementTuple and struct Pair(bool, String) *)
TupleTypes == {SingleElementTuple, TTupleStruct(<<TBool, TString>>)}

(* HashMap<Key, bool> *)
KeyTypes == {TKeyedHashMap("Key", TBool)}

(* enum TestEnum { Variant1, #[serde(rename = "variant2")] Variant2(bool), *)
(*                 Variant3 { field1: bool, field2: bool } }               *)
SwitchTypes ==
    {TEnum(<<Variant("Variant1", "Variant1", UnitFields),
             Variant("Variant2", "variant2", Unnamed(<<TBool>>)),
             Variant("Variant3", "Variant3",
                     Named(<<Field("field1", "field1", TBool, {}),
                             Field("field2", "field2", TBool, {})>>))>>)}

InternalTypes == {InternallyTaggedEnum}

AdjacentTypes == {AdjacentlyTaggedEnum}

(***************************************************************************)
(* The program: a value of one type, on which update, deserialize and      *)
(* serialize are called.  recv is the value, prev the value before the     *)
(* last call, input the Intermediate the last call read, res what the last *)
(* call returned and op the last call.  A panic ends the program.  The     *)
(* value is in no lock: guard, pc and locals stay as they start.           *)
(***************************************************************************)
Free == "free"

NoCall == [serialize |-> [field |-> 1, locked |-> FALSE], update |-> "idle"]

NoLocals == [map |-> <<>>, errors |-> <<>>, cycles |-> 0]

InitOf(types) ==
    /\ ty \in types
    /\ recv \in Values(ty)
    /\ prev = recv
    /\ input = INone
    /\ res = Ok(Unit)
    /\ op = "new"
    /\ guard = Free
    /\ pc = NoCall
    /\ locals = NoLocals

(* recv.update(&x) *)
UpdateCall ==
    /\ res.k # "Panic"
    /\ \E x \in CallInputs(ty) :
           LET u == Update(ty, recv, x)
           IN  /\ recv' = u.self
               /\ prev' = recv
               /\ input' = x
               /\ res' = u.res
               /\ op' = "update"
    /\ UNCHANGED <<ty, guard, pc, locals>>

(* T::deserialize(&x) *)
DeserializeCall ==
    /\ res.k # "Panic"
    /\ \E x \in CallInputs(ty) :
           /\ input' = x
           /\ res' = Deserialize(ty, x)
           /\ op' = "deserialize"
    /\ prev' = recv
    /\ UNCHANGED <<ty, recv, guard, pc, locals>>

(* recv.serialize() *)
SerializeCall ==
    /\ res.k # "Panic"
    /\ res' = Serialize(ty, recv)
    /\ op' = "serialize"
    /\ prev' = recv
    /\ input' = INone
    /\ UNCHANGED <<ty, recv, guard, pc, locals>>

(* T::deserialize(&recv.serialize()?): the value just serialized is read back *)
RoundTripCall ==
    /\ op = "serialize"
    /\ IsOk(res)
    /\ input' = res.v
    /\ res' = Deserialize(ty, res.v)
    /\ op' = "roundtrip"
    /\ UNCHANGED <<ty, recv, prev, guard, pc, locals>>

Next == UpdateCall \/ DeserializeCall \/ SerializeCall \/ RoundTripCall

SpecScalar == InitOf(ScalarTypes) /\ [][Next]_vars

SpecVec == InitOf(VecTypes) /\ [][Next]_vars

SpecMap == InitOf(MapTypes) /\ [][Next]_vars

SpecOption == InitOf(OptionTypes) /\ [][Next]_vars

SpecFixed == InitOf(FixedTypes) /\ [][Next]_vars

SpecEnum == InitOf(EnumTypes) /\ [][Next]_vars

SpecStruct == InitOf(StructTypes) /\ [][Next]_vars

SpecSingle == InitOf(SingleTypes) /\ [][Next]_vars

SpecInternal == InitOf(InternalTypes) /\ [][Next]_vars

SpecAdjacent == InitOf(AdjacentTypes) /\ [][Next]_vars

SpecMerge == InitOf(MergeTypes) /\ [][Next]_vars

SpecCollect == InitOf(CollectTypes) /\ [][Next]_vars

SpecTuple == InitOf(TupleTypes) /\ [][Next]_vars

SpecKey == InitOf(KeyTypes) /\ [][Next]_vars

SpecSwitch == InitOf(SwitchTypes) /\ [][Next]_vars

(* #[serde(tag = "type")]                                                  *)
(* enum E { #[serde(rename = "a")] A,                                       *)
(*          B { #[serde(rename = "type")] kind: String, x: bool } }         *)
TagTypes ==
    {TTaggedEnum("type", None,
         <<Variant("A", "a", UnitFields),
           Variant("B", "B", Named(<<Field("kind", "type", TString, {}),
                                     Field("x", "x", TBool, {})>>))>>)}

SpecTag == InitOf(TagTypes) /\ [][Next]_vars

(* A vector of structs of two fields: struct Pair { a: bool, b: char }.    *)
PartialTypes ==
    {TVec(TStruct(<<Field("a", "a", TBool, {}), Field("b", "b", TChar, {})>>))}

(* The elements fed to a vector of Pair: maps that update a, b or both,    *)
(* maps whose b is no char after an a that is one, and None.               *)
PairInputs ==
    {INone,
     IMap(<<Entry("a", IBool(TRUE))>>),
     IMap(<<Entry("a", IBool(FALSE)), Entry("b", IString("a"))>>),
     IMap(<<Entry("a", IBool(TRUE)), Entry("b", INone)>>),
     IMap(<<Entry("a", IBool(FALSE)), Entry("b", IString("ab"))>>)}

(* recv.update(&x) for a vector of Pair and an array x of PairInputs *)
UpdateVecCall ==
    /\ res.k # "Panic"
    /\ \E x \in {IArray(a) : a \in SeqsUpTo(PairInputs, MaxLen)} :
           \E u \in {Update(ty, recv, x)} :
               /\ recv' = u.self
               /\ prev' = recv
               /\ input' = x
               /\ res' = u.res
               /\ op' = "update"
    /\ UNCHANGED <<ty, guard, pc, locals>>

NextPartial == UpdateVecCall \/ SerializeCall

SpecPartial == InitOf(PartialTypes) /\ [][NextPartial]_vars

(***************************************************************************)
(* A value in a shared lock.  ty is Arc<Mutex<T>> or Rc<RefCell<T>>, recv  *)
(* the value in the lock and guard the holder of its MutexGuard (or Ref /  *)
(* RefMut).  One thread serializes a struct                                *)
(*     struct Shared { first: W, second: W }                               *)
(* whose two fields are clones of the one Arc (or Rc); the code the derive *)
(* macro generates serializes the fields one after the other, and          *)
(* serializing a field locks, serializes the value and drops the guard.    *)
(* locals holds the __map and __field_errors of that call and the number   *)
(* of guards it has taken.  Another owner of the lock updates the value;   *)
(* with Arc<Mutex<T>> it is another thread, with Rc<RefCell<T>> it is the  *)
(* same thread, which runs one call after the other.  Mutex<T> and         *)
(* RefCell<T> serialize as the shared wrappers do (Arc and Rc hand the     *)
(* call on); they cannot be in two fields.                                 *)
(***************************************************************************)
TLock(wrapper, T) == [k |-> "Lock", wrapper |-> wrapper, v |-> T]

LockTypes == {TLock(w, T) : w \in {"Arc<Mutex>", "Rc<RefCell>"}, T \in {TBool, FlattenedBool}}

SharedFields == <<"first", "second">>

(* A faulty drop: the guard of a call that returns Err stays.              *)
drop_guard_on_ok(holder, result) == IF IsOk(result) THEN Free ELSE holder

(* the guard is a temporary of the call's only statement and is dropped    *)
(* when the statement ends, whatever the result                            *)
drop_guard(holder, result) == Free

InitLock ==
    /\ ty \in LockTypes
    /\ recv \in Values(ty.v)
    /\ prev = recv
    /\ input = INone
    /\ res = Ok(Unit)
    /\ op = "new"
    /\ guard = Free
    /\ pc = NoCall
    /\ locals = NoLocals

(* no call of the serializing thread is running *)
SerializeIdle == ~pc.serialize.locked /\ pc.serialize.field \in {1, Len(SharedFields) + 1}

(* shared.serialize(), a field's self.lock().unwrap() / self.borrow(): the *)
(* call starts with the first field                                        *)
SerializeLock ==
    /\ ~pc.serialize.locked
    /\ guard = Free
    /\ ty.wrapper = "Rc<RefCell>" => pc.update = "idle"
    /\ LET start == pc.serialize.field > Len(SharedFields)
           these == IF start THEN NoLocals ELSE locals
       IN  /\ pc' = [pc EXCEPT !.serialize =
                        [field |-> IF start THEN 1 ELSE pc.serialize.field, locked |-> TRUE]]
           /\ locals' = [these EXCEPT !.cycles = these.cycles + 1]
    /\ guard' = "serialize"
    /\ UNCHANGED <<ty, recv, prev, input, res, op>>

(* the field's .serialize() under the guard, the drop of the guard, the    *)
(* insert into __map or the push to __field_errors, and after the last     *)
(* field the return                                                        *)
SerializeUnlock ==
    /\ pc.serialize.locked
    /\ \E i \in {pc.serialize.field}, r \in {Serialize(ty.v, recv)} :
           /\ guard' = drop_guard(guard, r)
           /\ locals' =
                  IF IsOk(r)
                  THEN [locals EXCEPT !.map = MapInsert(locals.map, SharedFields[i], r.v)]
                  ELSE [locals EXCEPT
                           !.errors = Append(locals.errors, FieldError(SharedFields[i], r.v))]
           /\ pc' = [pc EXCEPT !.serialize = [field |-> i + 1, locked |-> FALSE]]
           /\ IF i = Len(SharedFields)
              THEN /\ res' = IF locals'.errors # <<>>
                             THEN Err(NamedFieldErrors(locals'.errors))
                             ELSE Ok(IMap(locals'.map))
                   /\ op' = "serialize"
                   /\ input' = INone
                   /\ prev' = recv
              ELSE UNCHANGED <<res, op, input, prev>>
    /\ UNCHANGED <<ty, recv>>

(* shared.update(&x): self.lock().unwrap() / self.borrow_mut() *)
UpdateLock ==
    /\ pc.update = "idle"
    /\ guard = Free
    /\ ty.wrapper = "Rc<RefCell>" => SerializeIdle
    /\ guard' = "update"
    /\ pc' = [pc EXCEPT !.update = "locked"]
    /\ UNCHANGED <<ty, recv, prev, input, res, op, locals>>

(* the value's .update(&x) under the guard, and the drop of the guard *)
UpdateUnlock ==
    /\ pc.update = "locked"
    /\ \E x \in CallInputs(ty.v) :
           \E u \in {Update(ty.v, recv, x)} :
               /\ recv' = u.self
               /\ prev' = recv
               /\ input' = x
               /\ res' = u.res
               /\ op' = "update"
               /\ guard' = drop_guard(guard, u.res)
    /\ pc' = [pc EXCEPT !.update = "idle"]
    /\ UNCHANGED <<ty, locals>>

NextLock == SerializeLock \/ SerializeUnlock \/ UpdateLock \/ UpdateUnlock

SpecLock == InitLock /\ [][NextLock]_vars

(***************************************************************************)
(* Properties.                                                             *)
(***************************************************************************)
(* C1: round trip.  Whenever a value v serializes, deserializing what it   *)
(* serialized to returns Ok of a value equal to v.  As stated; the         *)
(* behaviours of SpecOption violate it.                                    *)
C1_RoundTrip == op = "roundtrip" => res = Ok(recv)

(* C2: Vec<T>::update merges by position.  After a successful update of a  *)
(* vector of length m with an Array of length n the vector has length n,   *)
(* a position below min(m, n) holds the old element updated in place with  *)
(* the incoming element, and a position from m on holds the deserialized   *)
(* incoming element.  Holding in every reachable state, it holds after any *)
(* sequence of updates.                                                    *)
C2_VecMerge ==
    (op = "update" /\ ty.k = "Vec" /\ IsOk(res)) =>
        /\ input.k = "Array"
        /\ Len(recv) = Len(input.v)
        /\ \A i \in 1..Len(input.v) :
               IF i <= Len(prev)
               THEN recv[i] = Update(ty.v, prev[i], input.v[i]).self
               ELSE Deserialize(ty.v, input.v[i]) = Ok(recv[i])

(* C2 happens: a vector of one struct is updated with an array of two maps, *)
(* the first of which names no field: the first element is kept (merged,   *)
(* not replaced) and the second is deserialized.                           *)
C2_Witness ==
    /\ op = "update" /\ ty = TVec(Flag) /\ IsOk(res)
    /\ prev = <<[x |-> TRUE]>>
    /\ input = IArray(<<IMap(<<>>), IMap(<<Entry("x", IBool(FALSE))>>)>>)
    /\ recv = <<[x |-> TRUE], [x |-> FALSE]>>

(* C3: HashMap::update merges by key and never deletes.  After an update   *)
(* with a Map every key of the receiver the incoming map lacks is still    *)
(* there with its value; after a successful one a key of both holds the    *)
(* old value updated in place and a key of the incoming map alone holds    *)
(* the deserialized value.  In every state the keys before the last call   *)
(* are keys after it, so the key set never shrinks.                        *)
C3_MapMerge ==
    ty.k = "HashMap" =>
        /\ DOMAIN prev \subseteq DOMAIN recv
        /\ (op = "update" /\ input.k = "Map") =>
               /\ \A key \in (DOMAIN prev) \ Keys(input.v) : recv[key] = prev[key]
               /\ IsOk(res) =>
                      /\ DOMAIN recv = (DOMAIN prev) \cup Keys(input.v)
                      /\ \A key \in Keys(input.v) :
                             IF key \in DOMAIN prev
                             THEN recv[key] =
                                      Update(ty.v, prev[key], MapGet(input.v, key).v).self
                             ELSE Deserialize(ty.v, MapGet(input.v, key).v) = Ok(recv[key])

(* C3 happens: a map of two structs is updated with a map that holds one   *)
(* of the keys and a new one: the key left out keeps its value, the key of *)
(* both is merged and the new key is inserted.                             *)
C3_Witness ==
    /\ op = "update" /\ ty = THashMap(Flag) /\ IsOk(res)
    /\ DOMAIN prev = {"a"}
    /\ input = IMap(<<Entry("b", IMap(<<Entry("x", IBool(FALSE))>>)),
                      Entry("a", IMap(<<>>))>>)
    /\ DOMAIN recv = {"a", "b"}
    /\ recv["a"] = prev["a"]

(* C4: Option<T>::update has three cases.  A None input sets the receiver  *)
(* to None; another input on Some(inner) is T::update on inner in place;   *)
(* another input on None sets the receiver to Some(T::deserialize(input)), *)
(* and leaves it None when that fails.                                     *)
C4_OptionCases ==
    (op = "update" /\ ty.k = "Option") =>
        CASE input.k = "None" -> recv.k = "None" /\ res = Ok(Unit)
          [] input.k # "None" /\ prev.k = "Some" ->
              LET u == Update(ty.v, prev.v, input)
              IN  recv = Some(u.self) /\ res = u.res
          [] OTHER ->
              LET d == Deserialize(ty.v, input)
              IN  IF IsOk(d) THEN recv = Some(d.v) /\ res = Ok(Unit)
                  ELSE recv.k = "None" /\ res = d

(* C4 happens: Some(struct) is updated with a map that names no field: the *)
(* update succeeds and keeps the inner value, where deserialize of the     *)
(* same map fails for the missing field.                                   *)
C4_Witness ==
    /\ op = "update" /\ ty = TOption(Flag) /\ IsOk(res)
    /\ prev = Some([x |-> TRUE])
    /\ input = IMap(<<>>)
    /\ recv = prev
    /\ IsErr(Deserialize(Flag, input))

(* C5: update of a scalar is deserialize-and-assign.  x.update(v) returns  *)
(* Ok exactly when T::deserialize(v) returns Ok(d), and then x = d; when   *)
(* it returns Err, x keeps its value and the error is the one deserialize  *)
(* returns for v.                                                          *)
C5_ScalarReplace ==
    (op = "update" /\ ty \in ScalarTypes) =>
        LET d == Deserialize(ty, input)
        IN  /\ IsOk(res) <=> IsOk(d)
            /\ IsOk(res) => recv = d.v
            /\ IsErr(res) => recv = prev /\ res = d

(* C5 happens: an i8 that holds another value is updated with the largest  *)
(* i8, given as an unsigned number.                                        *)
C5_Witness ==
    /\ op = "update" /\ ty = TInt("i8") /\ IsOk(res)
    /\ input = INumber(UnsignedInt(MaxOf("i8")))
    /\ recv = MaxOf("i8")
    /\ prev # recv

(* C6: integer deserialize neither widens nor truncates.  For an integer   *)
(* type of range [lo, hi] the result is Ok(v) exactly when the input is    *)
(* SignedInt(v) or UnsignedInt(v) with lo <= v <= hi, Err(OutOfBounds)     *)
(* when the input is an integer outside the range,                         *)
(* Err(UnsupportedConversion) when it is a Float and an invalid-value      *)
(* error when it is no Number.  As stated; the behaviours of SpecScalar    *)
(* violate it.                                                             *)
C6_IntRange ==
    (op = "deserialize" /\ ty.k = "int") =>
        CASE input.k # "Number" -> IsErr(res) /\ res.v.k = "InvalidValue"
          [] input.k = "Number" /\ input.v.k = "Float" -> res = Err(UnsupportedConversion)
          [] OTHER ->
              IF InRange(input.v.v, ty.v) THEN res = Ok(input.v.v)
              ELSE res = Err(OutOfBounds)

(* C7, for the types that read a position: deserializing [T; n] or a tuple *)
(* of arity n with n >= 1, or a derived tuple struct of n >= 2 fields,     *)
(* succeeds only on an Array of length >= n; the elements past the n-th    *)
(* are ignored (the result is the result for the first n); a shorter Array *)
(* or a value that is no Array yields an invalid-value error.  [T; 0] and  *)
(* () read nothing: every input deserializes.                              *)
C7_FixedLength ==
    (op = "deserialize" /\ ty.k \in {"Array", "Tuple", "TupleStruct"}) =>
        LET n == IF ty.k = "Array" THEN ty.n ELSE Len(ty.v)
        IN  IF n = 0 THEN res = Ok(<<>>)
            ELSE /\ IsOk(res) => input.k = "Array" /\ Len(input.v) >= n
                 /\ (input.k = "Array" /\ Len(input.v) >= n) =>
                        res = Deserialize(ty, IArray(SubSeq(input.v, 1, n)))
                 /\ (input.k # "Array" \/ Len(input.v) < n) =>
                        IsErr(res) /\ res.v.k = "InvalidValue"

(* C7 as stated, for every n: also [T; 0] and () succeed only on an Array  *)
(* and fail with an invalid-value error on a value that is no Array.       *)
C7_AnyLength ==
    (op = "deserialize" /\ ty.k \in {"Array", "Tuple", "TupleStruct"}) =>
        LET n == IF ty.k = "Array" THEN ty.n ELSE Len(ty.v)
        IN  /\ IsOk(res) => input.k = "Array" /\ Len(input.v) >= n
            /\ (input.k # "Array" \/ Len(input.v) < n) =>
                   IsErr(res) /\ res.v.k = "InvalidValue"

(* C7 happens: [bool; 2] is deserialized from an array of three elements,  *)
(* the third of which is no bool.                                          *)
C7_Witness ==
    /\ op = "deserialize" /\ ty = TArray(2, TBool)
    /\ input = IArray(<<IBool(TRUE), IBool(FALSE), INone>>)
    /\ res = Ok(<<TRUE, FALSE>>)

(* C8: updating [T; n], n >= 1, with an Array of length >= n returns a     *)
(* Result and does not panic, also when the Array is longer than n, and    *)
(* a successful update has updated each of the n slots with the element at *)
(* its index; a shorter Array or a value that is no Array returns an       *)
(* invalid-value error.  As stated; the behaviours of SpecFixed violate    *)
(* it.                                                                     *)
C8_ArrayUpdate ==
    (op = "update" /\ ty.k = "Array" /\ ty.n >= 1) =>
        /\ res.k \in {"Ok", "Err"}
        /\ (IsOk(res) /\ input.k = "Array" /\ Len(input.v) >= ty.n) =>
               \A i \in 1..ty.n : recv[i] = Update(ty.v, prev[i], input.v[i]).self
        /\ (input.k # "Array" \/ Len(input.v) < ty.n) =>
               IsErr(res) /\ res.v.k = "InvalidValue"

(* C9: externally tagged enum round trip.  A variant without content       *)
(* serializes to the string of its name, a variant with content to a map   *)
(* of one entry whose key is its name, and deserializing what a value      *)
(* serialized to recovers the value.  As stated; the behaviours of         *)
(* SpecEnum violate it.                                                    *)
C9_EnumRoundTrip ==
    ty.k = "Enum" =>
        LET variant == ty.v[CHOOSE i \in DOMAIN ty.v : ty.v[i].ident = recv.k]
        IN  /\ op = "serialize" =>
                   IF variant.fields.k = "Unit" THEN res = Ok(IString(variant.name))
                   ELSE /\ IsOk(res)
                        /\ res.v.k = "Map"
                        /\ Len(res.v.v) = 1
                        /\ res.v.v[1].key = variant.name
            /\ op = "roundtrip" => res = Ok(recv)

(* C10, as the code decides it.  A string that names a variant without     *)
(* fields yields the variant, one that names a variant with fields         *)
(* Err(MissingEnumVariantContent), one that names no variant               *)
(* Err(UnknownEnumVariant).  A map of any number of entries, one of whose  *)
(* keys names a variant, is read as the first declared variant so named,   *)
(* from that entry alone (a unit variant whatever the entry holds); a map  *)
(* none of whose keys names a variant yields Err(UnknownEnumVariant).  A   *)
(* value that is neither a string nor a map yields the invalid-value       *)
(* error.                                                                  *)
C10_EnumShapes ==
    (op = "deserialize" /\ ty.k = "Enum") =>
        LET named(names) == {i \in DOMAIN ty.v : ty.v[i].name \in names}
            first(names) ==
                ty.v[CHOOSE i \in named(names) : \A j \in named(names) : i <= j]
        IN  CASE input.k = "String" ->
                  IF named({input.v}) = {} THEN res = Err(UnknownEnumVariant)
                  ELSE IF first({input.v}).fields.k = "Unit"
                  THEN res = Ok(EnumValue(first({input.v}).ident, <<>>))
                  ELSE IF Len(first({input.v}).fields.v) = 0 THEN IsOk(res)
                  ELSE res = Err(MissingEnumVariantContent)
              [] input.k = "Map" ->
                  IF named(Keys(input.v)) = {} THEN res = Err(UnknownEnumVariant)
                  ELSE LET w == first(Keys(input.v))
                       IN  /\ res # Err(UnknownEnumVariant)
                           /\ IsOk(res) => res.v.k = w.ident
                           /\ w.fields.k = "Unit" => res = Ok(EnumValue(w.ident, <<>>))
                           /\ res = Deserialize(ty, IMap(<<Entry(w.name,
                                                       MapGet(input.v, w.name).v)>>))
              [] OTHER -> res = Err(invalid_value("enum variant"))

(* C10 as stated: a string naming a variant without content is accepted,   *)
(* and every input that is neither such a string nor a map of exactly one  *)
(* entry whose key names a variant yields Err(UnknownEnumVariant).         *)
C10_TwoShapes ==
    (op = "deserialize" /\ ty.k = "Enum") =>
        LET plain == /\ input.k = "String"
                     /\ \E i \in DOMAIN ty.v :
                            ty.v[i].name = input.v /\ ty.v[i].fields.k = "Unit"
            single == /\ input.k = "Map"
                      /\ Len(input.v) = 1
                      /\ \E i \in DOMAIN ty.v : ty.v[i].name = input.v[1].key
        IN  /\ plain => IsOk(res)
            /\ ~(plain \/ single) => res = Err(UnknownEnumVariant)

(* C10 happens: a map of two entries is deserialized, the second of which  *)
(* names Variant2 and the first Variant3, declared after it.               *)
C10_Witness ==
    /\ op = "deserialize" /\ ty = TestEnum
    /\ input = IMap(<<Entry("Variant3", INone), Entry("variant2", IBool(TRUE))>>)
    /\ res = Ok(EnumValue("Variant2", <<TRUE>>))

C12_InternalShapes ==
    (op = "serialize" /\ ty \in InternalTypes) =>
        LET variant == ty.v[CHOOSE i \in DOMAIN ty.v : ty.v[i].ident = recv.k]
            tagged == <<Entry(ty.tag, IString(variant.name))>>
            absent == variant.fields.k = "Unit" \/ Len(variant.fields.v) = 0
            content == IF variant.fields.k = "Named"
                       THEN Serialize(TStruct(variant.fields.v), recv.v)
                       ELSE Serialize(variant.fields.v[1], recv.v[1])
        IN  IF absent THEN res = Ok(IMap(tagged))
            ELSE IF IsOk(content) /\ content.v.k = "Map"
            THEN /\ IsOk(res) /\ res.v.k = "Map"
                 /\ Keys(res.v.v) = Keys(content.v.v) \cup {ty.tag}
                 /\ MapGet(res.v.v, ty.tag) = Some(IString(variant.name))
                 /\ \A key \in Keys(content.v.v) :
                        MapGet(res.v.v, key) = MapGet(content.v.v, key)
                 /\ Len(res.v.v) = Len(content.v.v) + 1
            ELSE res = Err(custom("enum cannot be tagged internally"))

(* C12 as stated: as above, but a variant whose content serializes to an   *)
(* empty Array is treated as one without content and yields the tag-only   *)
(* map; any other content that is no Map is an error.                      *)
C12_InternalSerialize ==
    (op = "serialize" /\ ty \in InternalTypes) =>
        LET variant == ty.v[CHOOSE i \in DOMAIN ty.v : ty.v[i].ident = recv.k]
            tagged == <<Entry(ty.tag, IString(variant.name))>>
            absent == variant.fields.k = "Unit" \/ Len(variant.fields.v) = 0
            content == IF variant.fields.k = "Named"
                       THEN Serialize(TStruct(variant.fields.v), recv.v)
                       ELSE Serialize(variant.fields.v[1], recv.v[1])
        IN  IF absent THEN res = Ok(IMap(tagged))
            ELSE IF ~IsOk(content) THEN IsErr(res)
            ELSE IF content.v.k = "Map"
            THEN /\ IsOk(res) /\ res.v.k = "Map"
                 /\ Keys(res.v.v) = Keys(content.v.v) \cup {ty.tag}
                 /\ MapGet(res.v.v, ty.tag) = Some(IString(variant.name))
            ELSE IF content.v = IArray(<<>>) THEN res = Ok(IMap(tagged))
            ELSE IsErr(res)

(* C12 happens: Variant4(vec![]), whose content is the empty Array, is     *)
(* serialized.                                                             *)
C12_Witness ==
    /\ op = "serialize" /\ ty = InternallyTaggedEnum
    /\ recv = EnumValue("Variant4", <<<<>>>>)
    /\ res = Err(custom("enum cannot be tagged internally"))

(* C13: adjacently tagged enum serialize always yields a map of exactly    *)
(* two entries, the variant's (renamed) name under the tag field and the   *)
(* content under the content field, whatever the content is: None for a    *)
(* variant without fields, an Array for a tuple variant of several fields, *)
(* a Map for a struct variant; no entry of the content is merged into the  *)
(* outer map.                                                              *)
C13_AdjacentSerialize ==
    (op = "serialize" /\ ty \in AdjacentTypes) =>
        LET variant == ty.v[CHOOSE i \in DOMAIN ty.v : ty.v[i].ident = recv.k]
            content == CASE variant.fields.k = "Unit" -> INone
                         [] variant.fields.k = "Named" ->
                             Serialize(TStruct(variant.fields.v), recv.v).v
                         [] variant.fields.k = "Unnamed" /\ Len(variant.fields.v) = 0 -> INone
                         [] variant.fields.k = "Unnamed" /\ Len(variant.fields.v) = 1 ->
                             Serialize(variant.fields.v[1], recv.v[1]).v
                         [] OTHER ->
                             IArray([i \in DOMAIN recv.v |->
                                        Serialize(variant.fields.v[i], recv.v[i]).v])
        IN  /\ res = Ok(IMap(<<Entry(ty.tag, IString(variant.name)),
                               Entry(ty.content.v, content)>>))
            /\ Len(res.v.v) = 2
            /\ Keys(res.v.v) = {ty.tag, ty.content.v}

(* C13 happens: a unit variant is serialized with its content entry        *)
(* holding None.                                                           *)
C13_Witness ==
    /\ op = "serialize" /\ ty = AdjacentlyTaggedEnum
    /\ recv = EnumValue("Variant1", <<>>)
    /\ res = Ok(IMap(<<Entry("type", IString("Variant1")), Entry("content", INone)>>))

(* C14: adjacently tagged enum deserialize and update.  The tag entry (for *)
(* update, the current variant when there is none) selects the variant and *)
(* the content is the entry of the content field alone.  Without that      *)
(* entry the call succeeds for a variant of no fields and fails with the   *)
(* named-field error (content field, missing field) for a variant that has *)
(* fields, the receiver staying as it was; with it, the variant's fields   *)
(* are deserialized from its value, or, when the receiver is in that       *)
(* variant, updated from it.                                               *)
C14_AdjacentContent ==
    (ty \in AdjacentTypes /\ op \in {"update", "deserialize"} /\ input.k = "Map") =>
        LET tag == MapGet(input.v, ty.tag)
            content == MapGet(input.v, ty.content.v)
            name == IF tag # None THEN tag.v.v
                    ELSE ty.v[CHOOSE i \in DOMAIN ty.v : ty.v[i].ident = prev.k].name
            w == ty.v[CHOOSE i \in DOMAIN ty.v : ty.v[i].name = name]
            empty == w.fields.k = "Unit" \/ Len(w.fields.v) = 0
            fields == IF w.fields.k = "Named" THEN TStruct(w.fields.v)
                      ELSE TTupleStruct(w.fields.v)
            built == IF w.fields.k = "Unit" THEN Ok(<<>>) ELSE Deserialize(fields, content.v)
            missing == Err(NamedFieldErrors(<<FieldError(ty.content.v, MissingField)>>))
        IN  (/\ tag = None => op = "update"
             /\ tag # None => tag.v.k = "String"
             /\ \E i \in DOMAIN ty.v : ty.v[i].name = name) =>
                CASE op = "deserialize" /\ content = None ->
                       res = IF empty THEN Ok(EnumValue(w.ident, <<>>)) ELSE missing
                  [] op = "deserialize" /\ content # None ->
                       res = IF IsOk(built) THEN Ok(EnumValue(w.ident, built.v)) ELSE built
                  [] op = "update" /\ content = None ->
                       IF empty THEN res = Ok(Unit) /\ recv = EnumValue(w.ident, <<>>)
                       ELSE res = missing /\ recv = prev
                  [] op = "update" /\ content # None /\ w.fields.k = "Unit" ->
                       res = Ok(Unit) /\ recv = EnumValue(w.ident, <<>>)
                  [] op = "update" /\ content # None /\ prev.k = w.ident ->
                       LET u == Update(fields, prev.v, content.v)
                       IN  res = u.res /\ recv = EnumValue(w.ident, u.self)
                  [] OTHER ->
                       IF IsOk(built) THEN res = Ok(Unit) /\ recv = EnumValue(w.ident, built.v)
                       ELSE res = built /\ recv = prev

(* C14 happens: {"type": "Variant3"} names a variant that has a field and  *)
(* holds no content entry.                                                 *)
C14_Witness ==
    /\ op = "deserialize" /\ ty = AdjacentlyTaggedEnum
    /\ input = IMap(<<Entry("type", IString("Variant3"))>>)
    /\ res = Err(NamedFieldErrors(<<FieldError("content", MissingField)>>))

(* C15: derived named-field struct deserialize of a Map does not stop at   *)
(* the first bad field.  It fails exactly when a field fails, and the      *)
(* error is then one named-field aggregate that holds one entry for every  *)
(* failing field (missing field for an absent required key, the field      *)
(* type's own error for an invalid value; the fields of a flattened struct *)
(* count as fields of the parent) and none for another field.  Amended: a  *)
(* flattened field that fails with an error that is no named-field         *)
(* aggregate ends the call with that error alone.                          *)
C15_AggregateErrors ==
    (op = "deserialize" /\ ty \in StructTypes /\ input.k = "Map") =>
        LET read == SelectSeq(ty.v, LAMBDA f : f.attrs \cap {"skip", "skip_deserializing"} = {})
            plain == SelectSeq(read, LAMBDA f : "flatten" \notin f.attrs)
            inner == SelectSeq(read, LAMBDA f : "flatten" \in f.attrs /\ f.ty.k = "Struct")
            leaves == IF inner = <<>> THEN plain ELSE inner[1].ty.v \o plain
            other == SelectSeq(read, LAMBDA f : /\ "flatten" \in f.attrs
                                                /\ f.ty.k # "Struct"
                                                /\ IsErr(Deserialize(f.ty, input)))
            value(f) == MapGet(input.v, f.name)
            failing(f) == IF value(f) = None THEN "default" \notin f.attrs
                          ELSE IsErr(Deserialize(f.ty, value(f).v))
            error(f) == IF value(f) = None THEN MissingField
                        ELSE Deserialize(f.ty, value(f).v).v
            entries(f) == {i \in DOMAIN res.v.v : res.v.v[i].field = f.name}
        IN  IF other # <<>> THEN res = Deserialize(other[1].ty, input)
            ELSE /\ IsErr(res) <=> \E i \in DOMAIN leaves : failing(leaves[i])
                 /\ IsErr(res) =>
                       /\ res.v.k = "NamedFieldErrors"
                       /\ \A i \in DOMAIN leaves :
                              IF failing(leaves[i])
                              THEN /\ Cardinality(entries(leaves[i])) = 1
                                   /\ \A j \in entries(leaves[i]) :
                                          res.v.v[j].error = error(leaves[i])
                              ELSE entries(leaves[i]) = {}
                       /\ Len(res.v.v) =
                              Cardinality({i \in DOMAIN leaves : failing(leaves[i])})

(* C15 as stated: whenever the deserialize of a Map fails, the error is a  *)
(* named-field aggregate holding an entry for every failing field.         *)
C15_AlwaysAggregate ==
    (op = "deserialize" /\ ty \in StructTypes /\ input.k = "Map" /\ IsErr(res)) =>
        /\ res.v.k = "NamedFieldErrors"
        /\ \A i \in DOMAIN ty.v :
               LET f == ty.v[i]
               IN  (/\ f.attrs = {}
                    /\ MapGet(input.v, f.name) = None) =>
                       \E j \in DOMAIN res.v.v :
                           res.v.v[j] = FieldError(f.name, MissingField)

(* C15 happens: field1 holds an invalid value and f2 is missing, and the   *)
(* error holds both entries.                                               *)
C15_Witness ==
    /\ op = "deserialize" /\ ty = DefaultStruct
    /\ input = IMap(<<Entry("field1", INone)>>)
    /\ res = Err(NamedFieldErrors(<<FieldError("field1", invalid_value("bool")),
                                    FieldError("f2", MissingField)>>))

C17_UpdateFrame ==
    (op = "update" /\ ty \in StructTypes) =>
        IF input.k # "Map" THEN res = Err(invalid_value("object")) /\ recv = prev
        ELSE \A i \in DOMAIN ty.v :
                 LET f == ty.v[i]
                     value == MapGet(input.v, f.name)
                     kept(g, new, old) ==
                         IF MapGet(input.v, g.name) = None THEN new[g.ident] = old[g.ident]
                         ELSE LET d == Deserialize(g.ty, MapGet(input.v, g.name).v)
                              IN  new[g.ident] = IF IsOk(d) THEN d.v ELSE old[g.ident]
                 IN  CASE f.attrs \cap {"skip", "skip_deserializing"} # {} ->
                            recv[f.ident] = prev[f.ident]
                       [] "flatten" \in f.attrs /\ f.ty.k = "Struct" ->
                            \A j \in DOMAIN f.ty.v :
                                kept(f.ty.v[j], recv[f.ident], prev[f.ident])
                       [] "flatten" \in f.attrs /\ f.ty.k # "Struct" ->
                            /\ recv[f.ident] = Update(f.ty, prev[f.ident], input).self
                            /\ IsErr(Update(f.ty, prev[f.ident], input).res) => IsErr(res)
                       [] OTHER -> kept(f, recv, prev)

(* C17 happens: SkipStruct { a, b, c }, all false, is updated from a map   *)
(* holding true under all three keys; only a changes.                      *)
C17_Witness ==
    /\ op = "update" /\ ty = SkipStruct
    /\ prev = Insert(Insert(Insert(EmptyMap, "a", FALSE), "b", FALSE), "c", FALSE)
    /\ input = IMap(<<Entry("a", IBool(TRUE)), Entry("b", IBool(TRUE)),
                      Entry("c", IBool(TRUE))>>)
    /\ res = Ok(Unit)
    /\ recv = Insert(Insert(Insert(EmptyMap, "a", TRUE), "b", FALSE), "c", FALSE)

(* C18: flatten.  Serializing a struct with a flattened field puts the     *)
(* entries of the field's serialized Map directly into the parent's map,   *)
(* which holds no entry under the field's own name; deserializing the      *)
(* parent's map builds the flattened field from the same keys, so that the *)
(* serialized struct reads back as it was; a flattened field that          *)
(* serializes to a value that is no Map makes the parent's serialize fail. *)
C18_Flatten ==
    (ty \in StructTypes /\ \E i \in DOMAIN ty.v : "flatten" \in ty.v[i].attrs) =>
        LET f == ty.v[CHOOSE i \in DOMAIN ty.v : "flatten" \in ty.v[i].attrs]
            inner == Serialize(f.ty, recv[f.ident])
            rest == {ty.v[i].name : i \in {j \in DOMAIN ty.v : ty.v[j] # f}}
        IN  /\ op = "serialize" =>
                  IF IsOk(inner) /\ inner.v.k = "Map"
                  THEN /\ IsOk(res) /\ res.v.k = "Map"
                       /\ Keys(res.v.v) = Keys(inner.v.v) \cup rest
                       /\ f.name \notin Keys(res.v.v)
                       /\ \A key \in Keys(inner.v.v) :
                              MapGet(res.v.v, key) = MapGet(inner.v.v, key)
                  ELSE IsErr(res)
            /\ op = "roundtrip" => res = Ok(recv)
            /\ (op = "deserialize" /\ IsOk(res) /\ f.ty.k = "Struct") =>
                  \A j \in DOMAIN f.ty.v :
                      LET g == f.ty.v[j]
                      IN  /\ MapGet(input.v, g.name) # None
                          /\ Ok(res.v[f.ident][g.ident]) =
                                 Deserialize(g.ty, MapGet(input.v, g.name).v)

(* C18 happens: OuterStruct { inner: InnerStruct { x: true, y: false },    *)
(* z: true } is serialized to the map of x, hello and z.                   *)
C18_Witness ==
    /\ op = "serialize" /\ ty = OuterStruct
    /\ recv = Insert(Insert(EmptyMap, "z", TRUE), "inner",
                     Insert(Insert(EmptyMap, "x", TRUE), "y", FALSE))
    /\ res = Ok(IMap(<<Entry("x", IBool(TRUE)), Entry("hello", IBool(FALSE)),
                       Entry("z", IBool(TRUE))>>))

(* C19: deserializing a one-field tuple struct or a one-field tuple        *)
(* variant.  Amended: the field is deserialized from the value as it is,   *)
(* so the result is the field type's own result for the input (for the     *)
(* variant, for the entry under its name); an Array holding the value is   *)
(* not unwrapped, and for a scalar field every Array is an error.          *)
C19_BareValue ==
    (op = "deserialize" /\ ty \in SingleTypes) =>
        IF ty.k = "TupleStruct"
        THEN LET d == Deserialize(ty.v[1], input)
             IN  /\ res = IF IsOk(d) THEN Ok(<<d.v>>) ELSE d
                 /\ (ty.v[1].k = "int" /\ input.k = "Array") => IsErr(res)
        ELSE (/\ input.k = "Map"
              /\ "variant2" \in Keys(input.v)
              /\ "Variant1" \notin Keys(input.v)) =>
                 LET content == MapGet(input.v, "variant2").v
                     d == Deserialize(TInt("u32"), content)
                 IN  /\ res = IF IsOk(d) THEN Ok(EnumValue("Variant2", <<d.v>>)) ELSE d
                     /\ content.k = "Array" => IsErr(res)

(* C19 as stated: the field's value is accepted bare and also wrapped in   *)
(* an Array of one element, which is unwrapped.                            *)
C19_BothForms ==
    (op = "deserialize" /\ ty \in SingleTypes /\ ty.k = "TupleStruct") =>
        /\ IsOk(Deserialize(ty.v[1], input)) =>
               res = Ok(<<Deserialize(ty.v[1], input).v>>)
        /\ (/\ input.k = "Array"
             /\ Len(input.v) = 1
             /\ IsOk(Deserialize(ty.v[1], input.v[1]))) =>
               res = Ok(<<Deserialize(ty.v[1], input.v[1]).v>>)

(* C19 happens: SingleElementTuple(u32) is deserialized from [1].          *)
C19_Witness ==
    /\ op = "deserialize" /\ ty = SingleElementTuple
    /\ input = IArray(<<INumber(UnsignedInt(IntOf(1)))>>)
    /\ IsErr(res)

(* C20: a one-field tuple struct or variant with a scalar field.  Update   *)
(* of the struct, or of the variant the receiver is in, accepts the bare   *)
(* value and an Array holding it, the field being updated from element 0;  *)
(* an empty Array is an invalid-value error.  Deserialize hands the input  *)
(* to the field type, for which an Array is an error.  Amended: an update  *)
(* that names the variant while the receiver is in another one             *)
(* deserializes the input, so it accepts the bare value only.              *)
C20_UpdateBothForms ==
    (ty \in {SingleElementTuple, SingleElementEnum} /\ op \in {"update", "deserialize"}) =>
        LET named == /\ input.k = "Map"
                     /\ "variant2" \in Keys(input.v)
                     /\ "Variant1" \notin Keys(input.v)
            content == IF ty.k = "Enum" THEN MapGet(input.v, "variant2").v ELSE input
            wrap(x) == IF ty.k = "Enum" THEN EnumValue("Variant2", <<x>>) ELSE <<x>>
            old == IF ty.k = "Enum" THEN prev.v[1] ELSE prev[1]
            u == Update(TInt("u32"), old,
                        IF content.k = "Array" THEN content.v[1] ELSE content)
            d == Deserialize(TInt("u32"), content)
        IN  (ty.k = "Enum" => named) =>
                CASE op = "deserialize" ->
                       /\ res = IF IsOk(d) THEN Ok(wrap(d.v)) ELSE d
                       /\ content.k = "Array" => IsErr(res)
                  [] op = "update" /\ ty.k = "Enum" /\ prev.k # "Variant2" ->
                       /\ content.k = "Array" => IsErr(res)
                       /\ IF IsOk(d) THEN res = Ok(Unit) /\ recv = wrap(d.v)
                          ELSE res = d /\ recv = prev
                  [] op = "update" /\ content = IArray(<<>>) ->
                       res = Err(invalid_value("array of length 1")) /\ recv = prev
                  [] OTHER ->
                       /\ recv = wrap(u.self)
                       /\ IsOk(res) <=> IsOk(u.res)
                       /\ content.k # "Array" => res = u.res

(* C20 as stated: Update accepts the bare value and an Array of one        *)
(* element holding it, for a struct and for a variant.                     *)
C20_UpdateAccepts ==
    (ty \in {SingleElementTuple, SingleElementEnum} /\ op = "update") =>
        LET named == /\ input.k = "Map"
                     /\ "variant2" \in Keys(input.v)
                     /\ "Variant1" \notin Keys(input.v)
            content == IF ty.k = "Enum" THEN MapGet(input.v, "variant2").v ELSE input
            wrap(x) == IF ty.k = "Enum" THEN EnumValue("Variant2", <<x>>) ELSE <<x>>
            accepts(x) == IsOk(Deserialize(TInt("u32"), x)) =>
                              res = Ok(Unit) /\ recv = wrap(Deserialize(TInt("u32"), x).v)
        IN  (ty.k = "Enum" => named) =>
                IF content.k = "Array" /\ Len(content.v) = 1 THEN accepts(content.v[1])
                ELSE accepts(content)

(* C20 happens: SingleElementTuple(0) is updated from [1].                 *)
C20_Witness ==
    /\ op = "update" /\ ty = SingleElementTuple
    /\ prev = <<IntOf(0)>>
    /\ input = IArray(<<INumber(UnsignedInt(IntOf(1)))>>)
    /\ res = Ok(Unit)
    /\ recv = <<IntOf(1)>>

(* C21: a lock-guarded wrapper holds its guard only during one serialize   *)
(* or update call of the value and has released it when the call returns,  *)
(* with Ok or with Err; serializing a struct of two fields that wrap the   *)
(* same lock takes and drops the guard twice, the lock being free between  *)
(* the fields.                                                             *)
C21_GuardScope ==
    /\ guard = "serialize" <=> pc.serialize.locked
    /\ guard = "update" <=> pc.update = "locked"
    /\ guard \in {Free, "serialize", "update"}
    /\ (op \in {"serialize", "update"} /\ pc.update = "idle" /\ ~pc.serialize.locked) =>
           guard = Free
    /\ ~pc.serialize.locked => locals.cycles = pc.serialize.field - 1
    /\ pc.serialize.locked => locals.cycles = pc.serialize.field
    /\ (pc.serialize.field = 2 /\ ~pc.serialize.locked) => guard # "serialize"

(* C21 happens: an update of another thread came between the two fields,   *)
(* which hold the value before it and the value after it.                  *)
C21_Witness ==
    /\ ty = TLock("Arc<Mutex>", TBool)
    /\ op = "serialize"
    /\ pc.serialize.field = 3
    /\ guard = Free
    /\ res = Ok(IMap(<<Entry("first", IBool(TRUE)), Entry("second", IBool(FALSE))>>))

(* C22: update is idempotent.  Whenever x.update(v) has returned Ok,       *)
(* applying x.update(v) again returns Ok and leaves x as the first         *)
(* application left it.  As stated; the behaviours of SpecMerge violate    *)
(* it: an update that selects another variant, of one field that reads an  *)
(* Array, deserializes the field from the Array, and the second update,    *)
(* the variant being the same, updates the field from the Array's first    *)
(* element.                                                                *)
C22_Idempotent ==
    (op = "update" /\ IsOk(res)) =>
        \E u \in {Update(ty, recv, input)} : IsOk(u.res) /\ u.self = recv

(* C23: the failures of a collection's children.  Amended: a Vec, slice or *)
(* fixed array returns from serialize the error of its first failing       *)
(* element, as that element returned it, and a string-keyed map returns    *)
(* from deserialize the error of the first failing entry its iteration     *)
(* meets; the failures after the first are not reported.                   *)
C23_FirstFailure ==
    /\ (op = "serialize" /\ ty.k \in {"Vec", "Array"}) =>
           LET bad == {i \in DOMAIN recv : ~IsOk(Serialize(ty.v, recv[i]))}
           IN  IF bad = {} THEN IsOk(res)
               ELSE res = Serialize(ty.v, recv[CHOOSE i \in bad : \A j \in bad : i <= j])
    /\ (op = "deserialize" /\ ty.k = "HashMap" /\ input.k = "Map") =>
           LET bad == {i \in DOMAIN input.v : ~IsOk(Deserialize(ty.v, input.v[i].val))}
           IN  IF bad = {} THEN IsOk(res)
               ELSE res = Deserialize(ty.v,
                              input.v[CHOOSE i \in bad : \A j \in bad : i <= j].val)

(* C23 as stated: the errors of all failing elements, and of all failing   *)
(* entries, are reported together.                                         *)
C23_CollectAll ==
    /\ (op = "serialize" /\ ty.k \in {"Vec", "Array"}) =>
           LET bad == {i \in DOMAIN recv : ~IsOk(Serialize(ty.v, recv[i]))}
           IN  Cardinality(bad) >= 2 =>
                   /\ IsErr(res)
                   /\ res.v.k \in {"UnnamedFieldErrors", "NamedFieldErrors"}
                   /\ Len(res.v.v) = Cardinality(bad)
    /\ (op = "deserialize" /\ ty.k = "HashMap" /\ input.k = "Map") =>
           LET bad == {i \in DOMAIN input.v : ~IsOk(Deserialize(ty.v, input.v[i].val))}
           IN  Cardinality(bad) >= 2 =>
                   /\ IsErr(res)
                   /\ res.v.k \in {"UnnamedFieldErrors", "NamedFieldErrors"}
                   /\ Len(res.v.v) = Cardinality(bad)

(* C23 happens: a Vec of two elements that both fail to serialize.         *)
C23_Witness ==
    /\ op = "serialize" /\ ty.k = "Vec"
    /\ recv = <<EnumValue("Variant5", <<TRUE>>), EnumValue("Variant5", <<FALSE>>)>>
    /\ res = Err(custom("enum cannot be tagged internally"))

(* C24: the errors of a tuple struct's fields.  A one-field tuple struct   *)
(* returns the failure of its field as the field's own error from          *)
(* deserialize and from update.  Amended: from update of the bare value;   *)
(* when update reads the field from an Array, the failure is returned in   *)
(* an unnamed-field aggregate of one entry with index 0.  A tuple struct   *)
(* of two or more fields, given an Array that is long enough, returns an   *)
(* unnamed-field aggregate with one entry, under its index, per failing    *)
(* position.                                                               *)
C24_FieldErrors ==
    (ty.k = "TupleStruct" /\ op \in {"deserialize", "update"}) =>
        LET n == Len(ty.v)
            arr == IF input.k = "Array" THEN input.v ELSE <<input>>
            call(i) == IF op = "deserialize" THEN Deserialize(ty.v[i], arr[i])
                       ELSE Update(ty.v[i], prev[i], arr[i]).res
            failing == SelectSeq([i \in 1..n |-> i], LAMBDA i : IsErr(call(i)))
            entries == [j \in DOMAIN failing |-> FieldError(failing[j] - 1, call(failing[j]).v)]
        IN  CASE n = 1 /\ op = "deserialize" ->
                   LET d == Deserialize(ty.v[1], input) IN IsErr(d) => res = d
              [] n = 1 /\ op = "update" /\ input.k # "Array" ->
                   IsErr(call(1)) => res = call(1)
              [] n = 1 /\ op = "update" /\ input.k = "Array" /\ Len(arr) >= 1 ->
                   IsErr(call(1)) => res = Err(UnnamedFieldErrors(entries))
              [] n >= 2 /\ input.k = "Array" /\ Len(arr) >= n ->
                   failing # <<>> => res = Err(UnnamedFieldErrors(entries))
              [] OTHER -> TRUE

(* C24 as stated: the failure of a one-field tuple struct's field is never *)
(* in an unnamed-field aggregate, for the bare value and for the Array of  *)
(* one element.                                                            *)
C24_NeverWrapped ==
    (ty.k = "TupleStruct" /\ Len(ty.v) = 1 /\ op \in {"deserialize", "update"}) =>
        /\ IsErr(res) => res.v.k # "UnnamedFieldErrors"
        /\ (op = "update" /\ input.k = "Array" /\ Len(input.v) = 1) =>
               res = Update(ty.v[1], prev[1], input.v[1]).res

(* C24 happens: SingleElementTuple(u32) is updated from [-1].              *)
C24_Witness ==
    /\ op = "update" /\ ty = SingleElementTuple
    /\ input = IArray(<<INumber(SignedInt(IntOf(-1)))>>)
    /\ IsErr(res)
    /\ res.v.k = "UnnamedFieldErrors"
    /\ Len(res.v.v) = 1
    /\ res.v.v[1].field = 0

(* C25: a key of the incoming map that does not convert into the map's key *)
(* type.  When the entries before the first such key are read without      *)
(* error, deserialize and update of the HashMap return an error of the     *)
(* invalid-key kind, and the map holds no entry for that key.  As stated;  *)
(* the behaviours of SpecKey violate it: deserialize returns the           *)
(* invalid-value kind.                                                     *)
C25_InvalidKey ==
    (ty.k = "HashMap" /\ ty.key # "String" /\ op \in {"deserialize", "update"}
        /\ input.k = "Map") =>
        LET bad == {i \in DOMAIN input.v : Len(input.v[i].key) # 1}
            first == CHOOSE i \in bad : \A j \in bad : i <= j
            before == SubSeq(input.v, 1, first - 1)
            reads == IF op = "deserialize" THEN IsOk(Deserialize(ty, IMap(before)))
                     ELSE IsOk(Update(ty, prev, IMap(before)).res)
        IN  (bad # {} /\ reads) =>
                /\ IsErr(res)
                /\ res.v.k = "InvalidKey"
                /\ op = "update" => input.v[first].key \notin DOMAIN recv

(* C26: an enum update that selects another variant than the receiver's is *)
(* all or nothing: the receiver becomes what deserialize returns for the   *)
(* input, and when deserialize fails, update returns its error and the     *)
(* receiver is as before; an input that holds only a part of the fields of *)
(* a struct variant fails so.  When the receiver is in the selected struct *)
(* variant, the fields whose keys the content holds are updated and the    *)
(* others kept, and the same input succeeds.                               *)
C26_AllOrNothing ==
    (op = "update" /\ ty.k = "Enum" /\ input.k \in {"Map", "String"}) =>
        LET hit == FirstVariant(ty.v, IF input.k = "Map" THEN Keys(input.v) ELSE {input.v})
            d == Deserialize(ty, input)
            content == MapGet(input.v, hit.v.name).v
            fields == hit.v.fields.v
            present == {i \in DOMAIN fields : fields[i].name \in Keys(content.v)}
            read(i) == Deserialize(fields[i].ty, MapGet(content.v, fields[i].name).v)
        IN  hit # None =>
                IF hit.v.ident # prev.k
                THEN /\ IF IsOk(d) THEN res = Ok(Unit) /\ recv = d.v
                        ELSE res = d /\ recv = prev
                     /\ (/\ input.k = "Map"
                         /\ hit.v.fields.k = "Named"
                         /\ content.k = "Map"
                         /\ present # DOMAIN fields) => IsErr(res) /\ recv = prev
                ELSE (/\ input.k = "Map"
                      /\ hit.v.fields.k = "Named"
                      /\ content.k = "Map"
                      /\ \A i \in present : IsOk(read(i))) =>
                         /\ res = Ok(Unit)
                         /\ recv.k = prev.k
                         /\ \A i \in DOMAIN fields :
                                recv.v[fields[i].ident] =
                                    IF i \in present THEN read(i).v
                                    ELSE prev.v[fields[i].ident]

(* C26 happens: Variant1 is updated from {"Variant3": {"field2": true}},   *)
(* which lacks field1.                                                     *)
C26_Witness ==
    /\ op = "update" /\ ty \in SwitchTypes
    /\ prev = EnumValue("Variant1", <<>>)
    /\ input = IMap(<<Entry("Variant3", IMap(<<Entry("field2", IBool(TRUE))>>))>>)
    /\ res = Err(NamedFieldErrors(<<FieldError("field1", MissingField)>>))
    /\ recv = prev

(* C27: a derived struct update that fails is not rolled back.  When       *)
(* update returns a named-field aggregate, every field whose key the input *)
(* holds and whose own update succeeded holds its new value, the fields    *)
(* without a key and the skipped ones are as before, and the aggregate     *)
(* lists, once each, exactly the fields whose update failed; the fields of *)
(* a flattened struct count as the struct's own.                           *)
C27_NoRollback ==
    (op = "update" /\ ty.k = "Struct" /\ IsErr(res) /\ res.v.k = "NamedFieldErrors") =>
        LET RECURSIVE failed(_, _)
            failed(fields, before) ==
                UNION {LET f == fields[i]
                       IN  CASE f.attrs \cap {"skip", "skip_deserializing"} # {} -> {}
                             [] "flatten" \in f.attrs -> failed(f.ty.v, before[f.ident])
                             [] f.name \notin Keys(input.v) -> {}
                             [] OTHER ->
                                 IF IsErr(Deserialize(f.ty, MapGet(input.v, f.name).v))
                                 THEN {f.name} ELSE {} : i \in DOMAIN fields}
            RECURSIVE kept(_, _, _)
            kept(fields, before, after) ==
                \A i \in DOMAIN fields :
                    LET f == fields[i]
                        new == Deserialize(f.ty, MapGet(input.v, f.name).v)
                    IN  CASE f.attrs \cap {"skip", "skip_deserializing"} # {} ->
                               after[f.ident] = before[f.ident]
                          [] "flatten" \in f.attrs ->
                               kept(f.ty.v, before[f.ident], after[f.ident])
                          [] f.name \notin Keys(input.v) -> after[f.ident] = before[f.ident]
                          [] OTHER ->
                               after[f.ident] = IF IsOk(new) THEN new.v ELSE before[f.ident]
        IN  /\ kept(ty.v, prev, recv)
            /\ {res.v.v[i].field : i \in DOMAIN res.v.v} = failed(ty.v, prev)
            /\ Len(res.v.v) = Cardinality(failed(ty.v, prev))

(* C27 happens: DefaultStruct holds the new field1 after an update whose   *)
(* f2 failed.                                                              *)
C27_Witness ==
    /\ op = "update" /\ ty = DefaultStruct
    /\ input = IMap(<<Entry("field1", IBool(TRUE)), Entry("f2", INone)>>)
    /\ prev["field1"] = FALSE
    /\ recv["field1"] = TRUE
    /\ IsErr(res)
    /\ res.v.k = "NamedFieldErrors"
    /\ Len(res.v.v) = 1
    /\ res.v.v[1].field = "f2"

(* C28 (as stated): after a failed Vec update the error is the one of the  *)
(* first failing element i, the vector is truncated to at most the         *)
(* incoming length, the positions below i are updated or appended, and no  *)
(* position at or above i has been updated or appended.                    *)
C28_NoneAtOrAbove ==
    (op = "update" /\ ty.k = "Vec" /\ input.k = "Array" /\ IsErr(res)) =>
        LET arr == input.v
            failing == {j \in DOMAIN arr :
                           IF j <= Len(prev) THEN IsErr(Update(ty.v, prev[j], arr[j]).res)
                           ELSE IsErr(Deserialize(ty.v, arr[j]))}
            i == IF failing = {} THEN 0
                 ELSE CHOOSE j \in failing : \A other \in failing : j <= other
        IN  /\ i > 0
            /\ res = (IF i <= Len(prev) THEN Update(ty.v, prev[i], arr[i]).res
                      ELSE Deserialize(ty.v, arr[i]))
            /\ Len(recv) <= Len(arr)
            /\ Len(recv) = IF Len(prev) >= i
                           THEN (IF Len(prev) > Len(arr) THEN Len(arr) ELSE Len(prev))
                           ELSE i - 1
            /\ \A j \in 1..(i - 1) :
                   recv[j] = IF j <= Len(prev) THEN Update(ty.v, prev[j], arr[j]).self
                             ELSE Deserialize(ty.v, arr[j]).v
            /\ \A j \in i..Len(recv) : recv[j] = prev[j]

(* C28 (amended): as above, but the element at i, when the vector holds    *)
(* one, is left as its own failed update left it; no position above i has  *)
(* been updated and none at or above the old length has been appended.     *)
C28_PartialUpdate ==
    (op = "update" /\ ty.k = "Vec" /\ input.k = "Array" /\ IsErr(res)) =>
        LET arr == input.v
            failing == {j \in DOMAIN arr :
                           IF j <= Len(prev) THEN IsErr(Update(ty.v, prev[j], arr[j]).res)
                           ELSE IsErr(Deserialize(ty.v, arr[j]))}
            i == IF failing = {} THEN 0
                 ELSE CHOOSE j \in failing : \A other \in failing : j <= other
        IN  /\ i > 0
            /\ res = (IF i <= Len(prev) THEN Update(ty.v, prev[i], arr[i]).res
                      ELSE Deserialize(ty.v, arr[i]))
            /\ Len(recv) <= Len(arr)
            /\ Len(recv) = IF Len(prev) >= i
                           THEN (IF Len(prev) > Len(arr) THEN Len(arr) ELSE Len(prev))
                           ELSE i - 1
            /\ \A j \in 1..(i - 1) :
                   recv[j] = IF j <= Len(prev) THEN Update(ty.v, prev[j], arr[j]).self
                             ELSE Deserialize(ty.v, arr[j]).v
            /\ \A j \in (i + 1)..Len(recv) : recv[j] = prev[j]
            /\ i <= Len(recv) => recv[i] = Update(ty.v, prev[i], arr[i]).self

(* C28 happens: the second of two elements fails after its field a was    *)
(* updated, and the first is updated.                                      *)
C28_Witness ==
    /\ op = "update" /\ ty.k = "Vec" /\ IsErr(res)
    /\ input.k = "Array"
    /\ Len(input.v) = 2
    /\ Len(prev) = 2
    /\ Len(recv) = 2
    /\ IsOk(Update(ty.v, prev[1], input.v[1]).res)
    /\ recv[1] # prev[1]
    /\ recv[2] # prev[2]

(* C29: for a value of an internally tagged enum whose content serializes  *)
(* to a Map, the serialized map holds the variant's name under the tag     *)
(* key, also when the content has an entry under that key, and reading the *)
(* map back dispatches to the variant that was serialized.                 *)
C29_TagKept ==
    (/\ op = "serialize" /\ ty.k = "TaggedEnum" /\ ty.content = None
     /\ IsOk(res)
     /\ serialize_enum_variant(ty.v, recv).v.content.k = "Map") =>
        LET variant == ty.v[CHOOSE i \in DOMAIN ty.v : ty.v[i].ident = recv.k]
            back == Deserialize(ty, res.v)
        IN  /\ res.v.k = "Map"
            /\ MapGet(res.v.v, ty.tag) = Some(IString(variant.name))
            /\ IsOk(back)
            /\ back.v.k = recv.k

(* C30: serialize is a fixed point of update.  Whenever x.serialize() has  *)
(* returned Ok(v), x.update(v) returns Ok and leaves x as it was.  As      *)
(* stated; the behaviours of SpecSingle violate it: a tuple struct of one  *)
(* field that is a Vec serializes to the Vec's Array, and update takes     *)
(* that Array for the wrapper of the field and updates the field from its  *)
(* first element.                                                          *)
C30_FixedPoint ==
    (op = "serialize" /\ IsOk(res)) =>
        \E u \in {Update(ty, recv, res.v)} : IsOk(u.res) /\ u.self = recv

====
